---- MODULE Spec2Model ----
(***************************************************************************)
(* Verification model of the option back-testing core of option_playground *)
(* (quote deduplication, leg / strategy resolution, hold-to-maturity       *)
(* valuation and the capital model).                                       *)
(*                                                                         *)
(* Conventions.  SQL NULL / Python None / NaN are the value NULL; pd.NA,   *)
(* the undefined marker of a ratio, is the value NA.                       *)
(* Dates are day numbers.  Money is exact integer arithmetic: prices are   *)
(* whole dollars, so every product with CONTRACT_MULTIPLIER is an integer  *)
(* and rounding of floats is not modelled.                                 *)
(***************************************************************************)
EXTENDS Integers, Sequences, FiniteSets, TLC

VARIABLES
    \* ---- dedup selection on one table (dedup_v3.py CTAS query) ----
    tbl,        \* bag of quote rows: row type -> number of copies
    kept,       \* result of the dedup SELECT ... WHERE rn = 1 (a bag)
    phase,      \* "load" | "done" | "idle"
    \* ---- dedup_v3.main / dedup_month run ----
    live,       \* month -> bag of rows of the live table
    orig,       \* month -> bag of rows when main started
    tmp,        \* the Glue temp table: <<>> when it does not exist, else <<bag>>
    pc,         \* position of the run
    m,          \* index into MONTHS of the month being processed
    dry_run,    \* args.dry_run
    skip_before,\* args.from_month as an index into MONTHS (1 = no skipping)
    n_before, n_dup_keys, n_dedup, n_after,
    pending,    \* what the try block of dedup_month ended with
    ops,        \* history of the current dedup_month call: <<statement, count read>>
    fatal_hit,  \* history: a CTAS wrote no row, or the count read back differed
    reported,   \* months for which the verification printed success
    ext,        \* number of writes done by other writers of the live table
    \* ---- leg resolver (athena_lib.query_entries_range_for_leg) ----
    quotes,     \* rows of the quote table ("silver"."options_daily_v2")
    qargs,      \* arguments of the query: ticker, leg, mode, ts_start, ts_end
    leg_rows,   \* the DataFrame returned (a set of rows)
    lphase,     \* "load" | "done" | "idle"
    \* ---- strategy resolver (option_strat.query_entries_range_for_strategy) ----
    sargs,      \* arguments: strategy, mode, require_all_legs, entry_weekdays
    tidy,       \* the DataFrame returned (a sequence of rows)
    sphase,     \* "load" | "done" | "idle"
    \* ---- capital of one (entry_date, expiry) group ----
    group,      \* the rows of the group
    capital,    \* the value returned by _compute_condor_capital_for_group
    cphase,     \* "load" | "done" | "idle"
    \* ---- valuation (summarize_hold_to_maturity_strategy_from_entries) ----
    strat,      \* the strategy the tidy entries were resolved for
    entries,    \* tidy_entries
    xtable,     \* expiry-day rows of the options table
    result,     \* the value returned
    vphase,     \* "load" | "done" | "idle"
    \* ---- put-spread summary (option_strat.summarize_put_spread_trades) ----
    trades,     \* rows returned by fetch_put_spread_trades
    pricing,    \* "mid" | "worst"
    tsum,       \* the value returned: summaries and detail rows
    tphase,     \* "load" | "done" | "idle"
    \* ---- implied volatility solver (commons/bs.implied_vol) ----
    iv_in,      \* arguments of implied_vol
    ipc,        \* "newton" | "bracket" | "bisect" | "done" | "idle"
    sigma,      \* the Newton iterate
    n_newton,   \* iterations of the Newton loop begun
    n_bisect,   \* iterations of the bisection loop begun
    newton_exit,\* how the Newton loop was left
    iv_out,     \* what implied_vol returned or raised
    obs,        \* what the last loop iteration computed
    \* ---- query sites over one quote table (dedup_v3, athena_lib) ----
    site_tbl,   \* rows of the quote table
    site_rows,  \* table rows the queried site selected
    site_name,  \* "leg" | "strangle"
    qphase,     \* "load" | "done" | "idle"
    \* ---- Leg objects (data/Leg.py) ----
    objs,       \* the Leg objects that exist
    leg_args,   \* arguments of the last Leg(...) call
    leg_exc,    \* "none" | "ValueError": how that call ended
    \* ---- two concurrent query_ticker calls ----
    temp2,      \* the table silver.temp2 (<<>> while it does not exist)
    qt_pc,      \* position of each query_ticker call
    qt_args,    \* (ticker, ts_start, ts_end) of each call
    qt_df,      \* what each call returned
    \* ---- implied_vol on the grid of representable sigmas ----
    b_price,      \* the price argument, as the sigma whose model price it is (NaN for a NaN price)
    bpc,        \* position in implied_vol
    b_iter,     \* iterations of the current loop so far
    b_sigma,    \* the Newton iterate
    lo,         \* lower end of the bisection interval
    hi,         \* upper end of the bisection interval
    f_lo,       \* sign of model - price at lo
    f_hi,       \* sign of model - price at hi
    b_ret       \* the value returned

dedupVars == <<tbl, kept, phase>>
runVars   == <<live, orig, tmp, pc, m, dry_run, skip_before, n_before,
               n_dup_keys, n_dedup, n_after, pending, ops, fatal_hit, reported, ext>>
legVars   == <<quotes, qargs, leg_rows, lphase>>
stratVars == <<sargs, tidy, sphase>>
capVars   == <<group, capital, cphase>>
valVars   == <<strat, entries, xtable, result, vphase>>
spreadVars == <<trades, pricing, tsum, tphase>>
ivVars == <<iv_in, ipc, sigma, n_newton, n_bisect, newton_exit, iv_out, obs>>
siteVars == <<site_tbl, site_rows, site_name, qphase>>
legObjVars == <<objs, leg_args, leg_exc>>
tickerVars == <<temp2, qt_pc, qt_args, qt_df>>
bisVars == <<b_price, bpc, b_iter, b_sigma, lo, hi, f_lo, f_hi, b_ret>>
vars      == <<dedupVars, runVars, legVars, stratVars, capVars, valVars, spreadVars, ivVars, siteVars, legObjVars, tickerVars, bisVars>>
NULL == 0 - 9999

\* ------------------------------------------------------------------ bounds
MaxRows      == 4     \* rows loaded into the table of the selection model
MaxLiveRows  == 4     \* rows of the live table over all months of a run
NumMonths    == 2     \* length of MONTHS in the run model
MaxExternal  == 1     \* writes of other writers during one run

Keys    == {1, 2}           \* (ticker, trade_date, cp, strike, expiry) keys
OIVals  == {NULL, 3, 5}     \* open_interest
BidVals == {1, 2, 9}        \* bid

RowTypes == [key : Keys, open_interest : OIVals, bid : BidVals]
EmptyTable == [t \in RowTypes |-> 0]

RECURSIVE SumOver(_, _)
SumOver(S, f) ==
    IF S = {} THEN 0
    ELSE LET x == CHOOSE y \in S : TRUE IN f[x] + SumOver(S \ {x}, f)

\* SELECT COUNT(*)
CountRows(t) == SumOver(RowTypes, t)

KeyTypes(k) == {t \in RowTypes : t.key = k}
KeyRows(t, k) == {r \in KeyTypes(k) : t[r] > 0}

\* GROUP BY key HAVING COUNT(*) > 1
CountDupKeys(t) == Cardinality({k \in Keys : SumOver(KeyTypes(k), t) > 1})

\* ORDER BY x DESC with NULLs last (Trino's default null ordering): a before b
DescBeforeNullsFirst(a, b) == b # NULL /\ (a = NULL \/ a > b)
DescBefore(a, b) == a # NULL /\ (b = NULL \/ a > b)

\* ORDER BY open_interest DESC NULLS LAST, bid DESC
DedupBeforeBidAsc(r, s) ==
    \/ DescBefore(r.open_interest, s.open_interest)
    \/ r.open_interest = s.open_interest /\ DescBefore(s.bid, r.bid)
DedupBefore(r, s) ==
    \/ DescBefore(r.open_interest, s.open_interest)
    \/ r.open_interest = s.open_interest /\ DescBefore(r.bid, s.bid)

\* the rows ROW_NUMBER() may number 1 in one partition
DedupFirst(part) == {r \in part : \A s \in part : ~DedupBefore(s, r)}

DedupSelectKeepAll(t) == t
\* SELECT ... FROM (SELECT *, ROW_NUMBER() OVER (PARTITION BY key ORDER BY ...)) WHERE rn = 1
DedupSelect(t) ==
    [r \in RowTypes |->
        IF t[r] > 0 /\ r \in DedupFirst(KeyRows(t, r.key)) THEN 1 ELSE 0]

\* =================================================================
\* Selection model: rows are written to a table, then the dedup query runs
\* =================================================================
Months == 1 .. NumMonths

RunIdle ==
    /\ live = <<>> /\ orig = <<>> /\ tmp = <<>> /\ pc = "idle" /\ m = 0
    /\ dry_run = FALSE /\ skip_before = 0
    /\ n_before = 0 /\ n_dup_keys = 0 /\ n_dedup = 0 /\ n_after = 0
    /\ pending = "none" /\ ops = <<>> /\ fatal_hit = FALSE /\ reported = {} /\ ext = 0

DedupIdle == tbl = EmptyTable /\ kept = EmptyTable /\ phase = "idle"

LegIdle == quotes = {} /\ qargs = <<>> /\ leg_rows = {} /\ lphase = "idle"

StratIdle == sargs = <<>> /\ tidy = <<>> /\ sphase = "idle"

CapIdle == group = {} /\ capital = 0 /\ cphase = "idle"

ValIdle ==
    strat = <<>> /\ entries = {} /\ xtable = {} /\ result = <<>> /\ vphase = "idle"

BisIdle ==
    b_price = 0 /\ bpc = "idle" /\ b_iter = 0 /\ b_sigma = 0 /\ lo = 0 /\ hi = 0 /\ f_lo = 0 /\ f_hi = 0 /\ b_ret = 0

NoTable == [exists |-> FALSE, rows |-> {}]
NoCall  == [ticker |-> "", ts_start |-> 0, ts_end |-> 0, dte |-> 0]
NoDf    == [status |-> "none", rows |-> {}, scanned |-> {}]

TickerIdle ==
    /\ temp2 = NoTable
    /\ qt_pc = <<"idle", "idle">>
    /\ qt_args = <<NoCall, NoCall>>
    /\ qt_df = <<NoDf, NoDf>>

LegObjIdle ==
    objs = {} /\ leg_args = <<>> /\ leg_exc = "idle"

SiteIdle ==
    site_tbl = {} /\ site_rows = {} /\ site_name = "" /\ qphase = "idle"

IVIdle ==
    /\ iv_in = <<>> /\ ipc = "idle" /\ sigma = 0 /\ n_newton = 0 /\ n_bisect = 0
    /\ newton_exit = "" /\ iv_out = <<>> /\ obs = <<>>

SpreadIdle ==
    trades = {} /\ pricing = "" /\ tsum = <<>> /\ tphase = "idle"

InitSelect ==
    /\ tbl = EmptyTable /\ kept = EmptyTable /\ phase = "load"
    /\ RunIdle /\ LegIdle /\ StratIdle /\ CapIdle /\ ValIdle /\ SpreadIdle /\ IVIdle /\ SiteIdle /\ LegObjIdle /\ TickerIdle /\ BisIdle

\* a writer inserts one row (import_historicaldata.athena_insert)
InsertRow(r) ==
    /\ phase = "load"
    /\ CountRows(tbl) < MaxRows
    /\ tbl' = [tbl EXCEPT ![r] = @ + 1]
    /\ UNCHANGED <<kept, phase, runVars, bisVars, tickerVars, legObjVars, siteVars, ivVars, spreadVars, legVars, stratVars, capVars, valVars>>

\* the dedup query of dedup_month, step 1
RunDedupQuery ==
    /\ phase = "load"
    /\ kept' = DedupSelect(tbl)
    /\ phase' = "done"
    /\ UNCHANGED <<tbl, runVars, bisVars, tickerVars, legObjVars, siteVars, ivVars, spreadVars, legVars, stratVars, capVars, valVars>>

NextSelect ==
    \/ \E r \in RowTypes : InsertRow(r)
    \/ RunDedupQuery

SpecSelect == InitSelect /\ [][NextSelect]_vars

\* =================================================================
\* Run model: dedup_v3.main over MONTHS, with the other writers of the table
\* =================================================================
\* rows the writers of the run model insert
LoadedRows == {[key |-> 1, open_interest |-> 5, bid |-> 1],
               [key |-> 2, open_interest |-> NULL, bid |-> 1]}

ExternalRows == {[key |-> 1, open_interest |-> 5, bid |-> 1]}

LiveRows(l) == SumOver(Months, [x \in Months |-> CountRows(l[x])])

InitRun ==
    /\ DedupIdle /\ LegIdle /\ StratIdle /\ CapIdle /\ ValIdle /\ SpreadIdle /\ IVIdle /\ SiteIdle /\ LegObjIdle /\ TickerIdle /\ BisIdle
    /\ live = [x \in Months |-> EmptyTable]
    /\ orig = [x \in Months |-> EmptyTable]
    /\ tmp = <<>>
    /\ pc = "load" /\ m = 0
    /\ dry_run = FALSE /\ skip_before = 0
    /\ n_before = 0 /\ n_dup_keys = 0 /\ n_dedup = 0 /\ n_after = 0
    /\ pending = "none" /\ ops = <<>> /\ fatal_hit = FALSE /\ reported = {} /\ ext = 0

\* before the run: the table is filled by its writers
LoadRow(x, r) ==
    /\ pc = "load"
    /\ LiveRows(live) < MaxLiveRows
    /\ live' = [live EXCEPT ![x][r] = @ + 1]
    /\ UNCHANGED <<dedupVars, bisVars, tickerVars, legObjVars, siteVars, ivVars, spreadVars, legVars, stratVars, capVars, valVars, orig, tmp, pc, m, dry_run, skip_before, n_before,
                   n_dup_keys, n_dedup, n_after, pending, ops, fatal_hit,
                   reported, ext>>

\* main(): parse --dry-run and --from-month, enter the loop over MONTHS
StartMain(dry, from) ==
    /\ pc = "load"
    /\ dry_run' = dry
    /\ skip_before' = from
    /\ orig' = live
    /\ m' = 1
    /\ pc' = "main"
    /\ UNCHANGED <<dedupVars, bisVars, tickerVars, legObjVars, siteVars, ivVars, spreadVars, legVars, stratVars, capVars, valVars, live, tmp, n_before, n_dup_keys, n_dedup, n_after,
                   pending, ops, fatal_hit, reported, ext>>

\* the for loop of main: skip months before --from-month, else call dedup_month
SkipsMonth(x, from) == x < from

MainLoop ==
    /\ pc = "main"
    /\ IF m > NumMonths THEN pc' = "done" /\ m' = m
       ELSE IF SkipsMonth(m, skip_before) THEN pc' = "main" /\ m' = m + 1
       ELSE pc' = "count" /\ m' = m
    /\ UNCHANGED <<dedupVars, bisVars, tickerVars, legObjVars, siteVars, ivVars, spreadVars, legVars, stratVars, capVars, valVars, live, orig, tmp, dry_run, skip_before, n_before,
                   n_dup_keys, n_dedup, n_after, pending, ops, fatal_hit,
                   reported, ext>>

\* n_before = _count(month_start, month_end)
CountBefore ==
    /\ pc = "count"
    /\ n_before' = CountRows(live[m])
    /\ ops' = Append(ops, <<"count", CountRows(live[m])>>)
    /\ pc' = "count_dup"
    /\ UNCHANGED <<dedupVars, bisVars, tickerVars, legObjVars, siteVars, ivVars, spreadVars, legVars, stratVars, capVars, valVars, live, orig, tmp, m, dry_run, skip_before,
                   n_dup_keys, n_dedup, n_after, pending, fatal_hit, reported, ext>>

\* the two early returns of dedup_month
SkipsRewriteNoDryRun(dups, dry) == dups = 0
SkipsRewrite(dups, dry) == dups = 0 \/ dry

\* dedup_month returns: its locals are gone, main goes on with the next month
Return ==
    /\ pc' = "main" /\ m' = m + 1
    /\ n_before' = 0 /\ n_dup_keys' = 0 /\ n_dedup' = 0 /\ n_after' = 0
    /\ pending' = "none" /\ ops' = <<>>

\* n_dup_keys = _count_dup_keys(...); return when there is nothing to do
CountDup ==
    /\ pc = "count_dup"
    /\ IF SkipsRewrite(CountDupKeys(live[m]), dry_run)
       THEN Return
       ELSE /\ pc' = "ctas" /\ m' = m
            /\ n_dup_keys' = CountDupKeys(live[m])
            /\ ops' = Append(ops, <<"count_dup", CountDupKeys(live[m])>>)
            /\ UNCHANGED <<n_before, n_dedup, n_after, pending>>
    /\ UNCHANGED <<dedupVars, bisVars, tickerVars, legObjVars, siteVars, ivVars, spreadVars, legVars, stratVars, capVars, valVars, live, orig, tmp, dry_run, skip_before, fatal_hit,
                   reported, ext>>

\* the guard after the CTAS: raise RuntimeError when it wrote no row
CtasAbortsNever(n) == FALSE
CtasAborts(n) == n = 0

\* step 1: CTAS into the temp table, then count what was written
Ctas ==
    /\ pc = "ctas"
    /\ tmp' = <<DedupSelect(live[m])>>
    /\ n_dedup' = CountRows(DedupSelect(live[m]))
    /\ ops' = Append(ops, <<"ctas", CountRows(DedupSelect(live[m]))>>)
    /\ fatal_hit' = (fatal_hit \/ CountRows(DedupSelect(live[m])) = 0)
    /\ IF CtasAborts(CountRows(DedupSelect(live[m])))
       THEN pc' = "cleanup" /\ pending' = "zero_rows"
       ELSE pc' = "delete" /\ pending' = pending
    /\ UNCHANGED <<dedupVars, bisVars, tickerVars, legObjVars, siteVars, ivVars, spreadVars, legVars, stratVars, capVars, valVars, live, orig, m, dry_run, skip_before, n_before,
                   n_dup_keys, n_after, reported, ext>>

\* step 2: DELETE the month from the live table
DeleteMonth ==
    /\ pc = "delete"
    /\ live' = [live EXCEPT ![m] = EmptyTable]
    /\ ops' = Append(ops, <<"delete", 0>>)
    /\ pc' = "insert"
    /\ UNCHANGED <<dedupVars, bisVars, tickerVars, legObjVars, siteVars, ivVars, spreadVars, legVars, stratVars, capVars, valVars, orig, tmp, m, dry_run, skip_before, n_before,
                   n_dup_keys, n_dedup, n_after, pending, fatal_hit, reported, ext>>

\* step 3: INSERT the rows of the temp table back
InsertBack ==
    /\ pc = "insert"
    /\ live' = [live EXCEPT ![m] = [r \in RowTypes |-> @[r] + tmp[1][r]]]
    /\ ops' = Append(ops, <<"insert", 0>>)
    /\ pc' = "verify"
    /\ UNCHANGED <<dedupVars, bisVars, tickerVars, legObjVars, siteVars, ivVars, spreadVars, legVars, stratVars, capVars, valVars, orig, tmp, m, dry_run, skip_before, n_before,
                   n_dup_keys, n_dedup, n_after, pending, fatal_hit, reported, ext>>

\* step 4: the check that decides between the success line and sys.exit(1)
VerifiedAlways(after, dedup) == TRUE
Verified(after, dedup) == after = dedup

Verify ==
    /\ pc = "verify"
    /\ n_after' = CountRows(live[m])
    /\ ops' = Append(ops, <<"verify", CountRows(live[m])>>)
    /\ fatal_hit' = (fatal_hit \/ CountRows(live[m]) # n_dedup)
    /\ IF Verified(CountRows(live[m]), n_dedup)
       THEN reported' = reported \cup {m} /\ pending' = "ok"
       ELSE reported' = reported /\ pending' = "mismatch"
    /\ pc' = "cleanup"
    /\ UNCHANGED <<dedupVars, bisVars, tickerVars, legObjVars, siteVars, ivVars, spreadVars, legVars, stratVars, capVars, valVars, live, orig, tmp, m, dry_run, skip_before, n_before,
                   n_dup_keys, n_dedup, ext>>

\* an Athena statement raises: outside the try block the exception leaves
\* main at once, inside it the finally block runs first
AthenaError ==
    /\ \/ pc \in {"count", "count_dup"} /\ pc' = "crashed" /\ pending' = pending
       \/ pc \in {"ctas", "delete", "insert", "verify"}
            /\ pc' = "cleanup" /\ pending' = "dml_error"
    /\ UNCHANGED <<dedupVars, bisVars, tickerVars, legObjVars, siteVars, ivVars, spreadVars, legVars, stratVars, capVars, valVars, live, orig, tmp, m, dry_run, skip_before, n_before,
                   n_dup_keys, n_dedup, n_after, ops, fatal_hit, reported, ext>>

\* what main does when dedup_month ends with an exception or SystemExit:
\* nothing catches it, the process ends
ContinuesAfterAny(p) == TRUE
ContinuesAfter(p) == p = "ok"

\* step 5 (finally): drop the temp table, then return or let the exception out
Cleanup ==
    /\ pc = "cleanup"
    /\ tmp' = <<>>
    /\ IF ContinuesAfter(pending)
       THEN Return
       ELSE /\ pc' = "crashed" /\ m' = m
            /\ ops' = Append(ops, <<"cleanup", 0>>)
            /\ UNCHANGED <<n_before, n_dup_keys, n_dedup, n_after, pending>>
    /\ UNCHANGED <<dedupVars, bisVars, tickerVars, legObjVars, siteVars, ivVars, spreadVars, legVars, stratVars, capVars, valVars, live, orig, dry_run, skip_before, fatal_hit,
                   reported, ext>>

Running == pc \notin {"idle", "load", "done", "crashed"}

\* Other writers of the live table.  Their writes to the month being
\* rewritten are modelled; a write to a later month is a different load.
\* another writer inserts a row while the run is in progress
\* (import_historicaldata.athena_insert)
ExternalInsert(r) ==
    /\ Running /\ m \in Months
    /\ ext < MaxExternal
    /\ ext' = ext + 1
    /\ live' = [live EXCEPT ![m][r] = @ + 1]
    /\ UNCHANGED <<dedupVars, bisVars, tickerVars, legObjVars, siteVars, ivVars, spreadVars, legVars, stratVars, capVars, valVars, orig, tmp, pc, m, dry_run, skip_before, n_before,
                   n_dup_keys, n_dedup, n_after, pending, ops, fatal_hit, reported>>

\* another writer deletes the rows of a trade date (daily_updater.delete_existing)
ExternalDelete(k) ==
    /\ Running /\ m \in Months
    /\ ext < MaxExternal
    /\ KeyRows(live[m], k) # {}
    /\ ext' = ext + 1
    /\ live' = [live EXCEPT ![m] = [r \in RowTypes |-> IF r.key = k THEN 0 ELSE @[r]]]
    /\ UNCHANGED <<dedupVars, bisVars, tickerVars, legObjVars, siteVars, ivVars, spreadVars, legVars, stratVars, capVars, valVars, orig, tmp, pc, m, dry_run, skip_before, n_before,
                   n_dup_keys, n_dedup, n_after, pending, ops, fatal_hit, reported>>

NextRun ==
    \/ \E x \in Months, r \in LoadedRows : LoadRow(x, r)
    \/ \E dry \in BOOLEAN, from \in Months : StartMain(dry, from)
    \/ MainLoop
    \/ CountBefore
    \/ CountDup
    \/ Ctas
    \/ DeleteMonth
    \/ InsertBack
    \/ Verify
    \/ AthenaError
    \/ Cleanup
    \/ \E r \in ExternalRows : ExternalInsert(r)
    \/ \E k \in Keys : ExternalDelete(k)

SpecRun == InitRun /\ [][NextRun]_vars

\* =================================================================
\* Leg resolver: athena_lib.query_entries_range_for_leg
\* =================================================================
Modes == {"exact", "next_on_or_after", "nearest"}

Abs(x) == IF x < 0 THEN 0 - x ELSE x

\* (o.bid + o.ask) / 2 AS entry_last; NULL when either is NULL
Mid(b, a) == IF b = NULL \/ a = NULL THEN NULL ELSE (b + a) \div 2

\* cp = "C" if leg.opt_type.name == "CALL" else "P"
LegCp(l) == IF l.opt_type = "CALL" THEN "C" ELSE "P"

\* delta_target = delta_mag if cp == "C" else -delta_mag   (in hundredths)
DeltaTargetUnsigned(l) == l.strike_delta
DeltaTargetNoSign(l) == Abs(l.strike_delta)
DeltaTarget(l) == IF LegCp(l) = "C" THEN l.strike_delta ELSE 0 - l.strike_delta

\* ABS(delta - delta_target); NULL when delta is NULL
DeltaErr(q, l) == IF q.delta = NULL THEN NULL ELSE Abs(q.delta - DeltaTarget(l))

\* ABS(date_diff('day', o.expiry, date_add('day', horizon_days, o.trade_date)))
ExpiryDiff(q, l) == Abs((q.trade_date + l.dte) - q.expiry)

\* the WHERE clause: base_where and the mode's expiry_clause
ExpiryClauseLoose(mode, q, l) == TRUE
ExpiryClause(mode, q, l) ==
    CASE mode = "exact" -> q.expiry = q.trade_date + l.dte
      [] mode = "next_on_or_after" -> q.expiry >= q.trade_date + l.dte
      [] OTHER -> TRUE

Cand(tab, a) ==
    {q \in tab : /\ q.ticker = a.ticker
                 /\ q.cp = LegCp(a.leg)
                 /\ q.trade_date >= a.ts_start
                 /\ q.trade_date <= a.ts_end
                 /\ ExpiryClause(a.mode, q, a.leg)}

\* ascending ORDER BY key, NULLs last: a sorts strictly before b
AscBefore(a, b) == a # NULL /\ (b = NULL \/ a < b)

\* the ORDER BY list of the mode
OrderKeysNoExpiry(mode, q, l) == <<DeltaErr(q, l), q.strike>>
OrderKeysStrikeDesc(mode, q, l) ==
    CASE mode = "exact" -> <<DeltaErr(q, l), 0 - q.strike>>
      [] mode = "next_on_or_after" -> <<q.expiry, DeltaErr(q, l), 0 - q.strike>>
      [] OTHER -> <<ExpiryDiff(q, l), DeltaErr(q, l), 0 - q.strike>>
OrderKeys(mode, q, l) ==
    CASE mode = "exact" -> <<DeltaErr(q, l), q.strike>>
      [] mode = "next_on_or_after" -> <<q.expiry, DeltaErr(q, l), q.strike>>
      [] OTHER -> <<ExpiryDiff(q, l), DeltaErr(q, l), q.strike>>

\* lexicographic comparison of two ORDER BY key lists
LexBefore(k1, k2) ==
    \E i \in DOMAIN k1 :
        /\ AscBefore(k1[i], k2[i])
        /\ \A j \in 1 .. (i - 1) : k1[j] = k2[j]

RankBefore(a, q, r) ==
    LexBefore(OrderKeys(a.mode, q, a.leg), OrderKeys(a.mode, r, a.leg))

\* PARTITION BY entry_date
DayPart(c, d) == {q \in c : q.trade_date = d}

\* rows ROW_NUMBER() may number 1 in the partition of day d
RankFirst(c, a, d) ==
    {q \in DayPart(c, d) : \A r \in DayPart(c, d) : ~RankBefore(a, r, q)}

\* SELECT entry_date, expiry, ticker, cp, strike, delta, entry_last, plus the
\* traceability columns added to the DataFrame
OutRow(q, l) ==
    [entry_date |-> q.trade_date, expiry |-> q.expiry, ticker |-> q.ticker,
     cp |-> q.cp, strike |-> q.strike, delta |-> q.delta,
     entry_last |-> Mid(q.bid, q.ask),
     leg_direction |-> l.direction, leg_type |-> l.opt_type,
     leg_quantity |-> l.quantity, target_delta |-> DeltaTarget(l),
     target_dte |-> l.dte]

\* every result the query may return: one rn = 1 row per day with candidates
\* (ROW_NUMBER breaks ties between equal keys arbitrarily)
RECURSIVE PickPerDay(_, _, _)
PickPerDay(c, a, days) ==
    IF days = {} THEN {{}}
    ELSE LET d == CHOOSE x \in days : TRUE IN
         { {OutRow(q, a.leg)} \cup rest :
               q \in RankFirst(c, a, d), rest \in PickPerDay(c, a, days \ {d}) }

QueryEntriesRangeForLeg(tab, a) ==
    LET c == Cand(tab, a) IN PickPerDay(c, a, {q.trade_date : q \in c})

\* ---- inputs of the leg-resolver model
LegQuotes ==
    {[ticker |-> "A", trade_date |-> 1, expiry |-> e, cp |-> "C", strike |-> k,
      delta |-> d, bid |-> 1, ask |-> 3] :
        e \in {2, 3, 4}, k \in {100, 105}, d \in {24, 31, NULL}}
    \cup
    {[ticker |-> "A", trade_date |-> 2, expiry |-> 4, cp |-> "C", strike |-> 100,
      delta |-> d, bid |-> 1, ask |-> 3] : d \in {24, 31}}
    \cup
    {[ticker |-> "A", trade_date |-> 1, expiry |-> e, cp |-> "P", strike |-> 100,
      delta |-> d, bid |-> 1, ask |-> 3] : e \in {3, 4}, d \in {0 - 24, 0 - 31}}
    \cup
    {[ticker |-> "A", trade_date |-> 1, expiry |-> 3, cp |-> "C", strike |-> 100,
      delta |-> 24, bid |-> b, ask |-> 3] : b \in {NULL}}
    \cup
    {[ticker |-> "B", trade_date |-> 1, expiry |-> 3, cp |-> "C", strike |-> 100,
      delta |-> 25, bid |-> 1, ask |-> 3]}

MaxQuotes == 3      \* rows of the quote table in the leg-resolver model

LegInputs ==
    [direction : {"SELL"}, opt_type : {"CALL", "PUT"}, quantity : {1},
     strike_delta : {25, 30}, dte : {2}]

QueryArgs ==
    [ticker : {"A"}, leg : LegInputs, mode : Modes, ts_start : {1}, ts_end : {1, 2}]

InitLeg ==
    /\ DedupIdle /\ RunIdle /\ StratIdle /\ CapIdle /\ ValIdle /\ SpreadIdle /\ IVIdle /\ SiteIdle /\ LegObjIdle /\ TickerIdle /\ BisIdle
    /\ quotes = {} /\ qargs = <<>> /\ leg_rows = {} /\ lphase = "load"

\* a writer adds a quote row to the table
AddQuote(q) ==
    /\ lphase = "load"
    /\ q \notin quotes
    /\ Cardinality(quotes) < MaxQuotes
    /\ quotes' = quotes \cup {q}
    /\ UNCHANGED <<dedupVars, bisVars, tickerVars, legObjVars, siteVars, ivVars, spreadVars, runVars, stratVars, capVars, valVars, qargs, leg_rows, lphase>>

\* one call of query_entries_range_for_leg
QueryLeg(a) ==
    /\ lphase = "load"
    /\ qargs' = a
    /\ leg_rows' \in QueryEntriesRangeForLeg(quotes, a)
    /\ lphase' = "done"
    /\ UNCHANGED <<dedupVars, bisVars, tickerVars, legObjVars, siteVars, ivVars, spreadVars, runVars, stratVars, capVars, valVars, quotes>>

NextLeg ==
    \/ \E q \in LegQuotes : AddQuote(q)
    \/ \E a \in QueryArgs : QueryLeg(a)

SpecLeg == InitLeg /\ [][NextLeg]_vars

\* =================================================================
\* Strategy resolver: option_strat.query_entries_range_for_strategy
\* =================================================================
NumDays == 4        \* trading days of the strategy-resolver model
MaxLegs == 2        \* legs of a strategy in the strategy-resolver model

Days == 1 .. NumDays

\* pandas .dt.weekday (Mon = 0 .. Sun = 6); day 1 is a Monday
Weekday(d) == (d - 1) % 7

\* lib.constants.WEEKDAY_ALIASES
WEEKDAY_ALIASES ==
    [w \in {"MON", "TUE", "WED", "THU", "FRI", "SAT", "SUN"} |->
        CASE w = "MON" -> 0 [] w = "TUE" -> 1 [] w = "WED" -> 2 [] w = "THU" -> 3
          [] w = "FRI" -> 4 [] w = "SAT" -> 5 [] OTHER -> 6]

\* w.strip().upper()[:3] on the spellings the model passes
StripUpper3(w) ==
    CASE w \in {"TUE", "tue", " Tue ", "Tuesday"} -> "TUE"
      [] w \in {"WED", "wed"} -> "WED"
      [] OTHER -> w

\* a weekday spec is an int or a str
IntSpec(n) == [kind |-> "int", n |-> n, s |-> ""]
StrSpec(w) == [kind |-> "str", n |-> 0, s |-> w]

\* _normalize_weekdays; entry_weekdays is <<>> for None, else <<set of specs>>
NormalizeWeekdays(ew) ==
    IF ew = <<>> THEN <<>>
    ELSE << { IF w.kind = "int" THEN w.n % 7 ELSE WEEKDAY_ALIASES[StripUpper3(w.s)]
                : w \in ew[1] } >>

\* "if wd_filter:" is false for None and for the empty set
FilterActive(wf) == wf # <<>> /\ wf[1] # {}

\* tidy = tidy[wd.isin(wd_filter)]
WeekdayFilterOff(rows, wf) == rows
WeekdayFilter(rows, wf) ==
    IF FilterActive(wf) THEN {r \in rows : Weekday(r.entry_date) \in wf[1]} ELSE rows

\* set(s.unique()) == needed, needed = set(range(len(strategy.legs)))
AllLegsLoose(idxs, n) == idxs \subseteq 0 .. (n - 1)
AllLegs(idxs, n) == idxs = 0 .. (n - 1)

\* keep the entry dates present for all legs
AlignDates(rows, n) ==
    LET ok == {d \in {r.entry_date : r \in rows} :
                 AllLegs({r.leg_index : r \in {x \in rows : x.entry_date = d}}, n)}
    IN {r \in rows : r.entry_date \in ok}

\* the per-leg columns added by the strategy resolver
TagRow(r, idx, l) ==
    [entry_date |-> r.entry_date, expiry |-> r.expiry, ticker |-> r.ticker,
     cp |-> r.cp, strike |-> r.strike, delta |-> r.delta,
     entry_last |-> r.entry_last,
     leg_index |-> idx, leg_direction |-> l.direction, leg_type |-> l.opt_type,
     leg_quantity |-> l.quantity, target_delta |-> DeltaTargetUnsigned(l),
     target_dte |-> l.dte]

\* every concatenation of per-leg results (legs i .. Len(legs))
RECURSIVE PerLeg(_, _, _)
PerLeg(tab, a, i) ==
    IF i > Len(a.strategy) THEN {{}}
    ELSE { {TagRow(r, i - 1, a.strategy[i]) : r \in one} \cup rest :
             one \in QueryEntriesRangeForLeg(tab,
                        [ticker |-> a.ticker, leg |-> a.strategy[i], mode |-> a.mode,
                         ts_start |-> a.ts_start, ts_end |-> a.ts_end]),
             rest \in PerLeg(tab, a, i + 1) }

\* sort_values(["entry_date", "leg_index", "expiry", "strike"])
SortKey(r) == <<r.entry_date, r.leg_index, r.expiry, r.strike>>
RECURSIVE SortRows(_)
SortRows(rows) ==
    IF rows = {} THEN <<>>
    ELSE LET first == CHOOSE r \in rows :
                        \A x \in rows : ~LexBefore(SortKey(x), SortKey(r))
         IN <<first>> \o SortRows(rows \ {first})

QueryEntriesRangeForStrategy(tab, a) ==
    { SortRows(IF a.require_all_legs
               THEN AlignDates(WeekdayFilter(t, NormalizeWeekdays(a.entry_weekdays)),
                               Len(a.strategy))
               ELSE WeekdayFilter(t, NormalizeWeekdays(a.entry_weekdays)))
        : t \in PerLeg(tab, a, 1) }

\* ---- inputs of the strategy-resolver model
StratQuotes ==
    {[ticker |-> "A", trade_date |-> d, expiry |-> d + 2, cp |-> c, strike |-> 100,
      delta |-> IF c = "C" THEN 24 ELSE 0 - 24, bid |-> 1, ask |-> 3] :
        d \in Days, c \in {"C", "P"}}

StratLegs ==
    {[direction |-> "SELL", opt_type |-> "CALL", quantity |-> 1, strike_delta |-> 25, dte |-> 2],
     [direction |-> "BUY",  opt_type |-> "PUT",  quantity |-> 1, strike_delta |-> 25, dte |-> 2]}

RECURSIVE SeqsUpTo(_, _)
SeqsUpTo(S, n) ==
    IF n = 0 THEN {<<>>}
    ELSE SeqsUpTo(S, n - 1) \cup
         {Append(sq, x) : sq \in {t \in SeqsUpTo(S, n - 1) : Len(t) = n - 1}, x \in S}

WeekdayInputs ==
    { <<>>, <<{}>>, <<{IntSpec(1)}>>, <<{IntSpec(8), IntSpec(2)}>>,
      <<{StrSpec(" Tue "), StrSpec("wed")}>> }

StratArgs ==
    [ticker : {"A"}, strategy : SeqsUpTo(StratLegs, MaxLegs), mode : Modes,
     ts_start : {1}, ts_end : {NumDays},
     require_all_legs : BOOLEAN, entry_weekdays : WeekdayInputs]

InitStrat ==
    /\ DedupIdle /\ RunIdle /\ CapIdle /\ ValIdle /\ SpreadIdle /\ IVIdle /\ SiteIdle /\ LegObjIdle /\ TickerIdle /\ BisIdle
    /\ quotes = {} /\ qargs = <<>> /\ leg_rows = {} /\ lphase = "idle"
    /\ sargs = <<>> /\ tidy = <<>> /\ sphase = "load"

\* a writer adds a quote row to the table
AddStratQuote(q) ==
    /\ sphase = "load"
    /\ q \notin quotes
    /\ quotes' = quotes \cup {q}
    /\ UNCHANGED <<dedupVars, bisVars, tickerVars, legObjVars, siteVars, ivVars, spreadVars, runVars, capVars, valVars, qargs, leg_rows, lphase, sargs, tidy,
                   sphase>>

\* one call of query_entries_range_for_strategy
QueryStrategy(a) ==
    /\ sphase = "load"
    /\ sargs' = a
    /\ tidy' \in QueryEntriesRangeForStrategy(quotes, a)
    /\ sphase' = "done"
    /\ UNCHANGED <<dedupVars, bisVars, tickerVars, legObjVars, siteVars, ivVars, spreadVars, runVars, legVars, capVars, valVars>>

NextStrat ==
    \/ \E q \in StratQuotes : AddStratQuote(q)
    \/ \E a \in StratArgs : QueryStrategy(a)

SpecStrat == InitStrat /\ [][NextStrat]_vars

\* =================================================================
\* Capital at risk: _compute_condor_capital_for_group
\* (amounts are exact integers: strikes and prices are whole dollars)
\* =================================================================
CONTRACT_MULTIPLIER == 100

MaxQty == 2         \* largest leg quantity of the capital model

\* float("nan")
NaN == NULL

Max(a, b) == IF a >= b THEN a ELSE b
Min(a, b) == IF a <= b THEN a ELSE b

\* sign = leg_direction.map({"BUY": 1, "SELL": -1})
Sign(dir) == IF dir = "BUY" THEN 1 ELSE 0 - 1

\* entry_premium_signed = entry_last * CONTRACT_MULTIPLIER * leg_quantity * sign
EntryPremiumNoSign(r) == r.entry_last * CONTRACT_MULTIPLIER * r.leg_quantity
EntryPremiumSigned(r) ==
    r.entry_last * CONTRACT_MULTIPLIER * r.leg_quantity * Sign(r.leg_direction)

\* group[(leg_type == t) & (leg_direction == d)]
Slot(g, t, d) == {r \in g : r.leg_type = t /\ r.leg_direction = d}

\* .iloc[0] of a selection; groups hold at most one row per leg
First(sel) == CHOOSE r \in sel : TRUE

\* the short-only branch; u2 is twice underlying_est
\*   0.20 * underlying_est * 100 * q = 10 * u2 * q
\*   0.10 * underlying_est * 100 * q =  5 * u2 * q
\*   max(0, sc_strike - underlying_est) * 100 * q = 50 * max(0, 2 * sc_strike - u2) * q
UnderlyingEst2(sc, sp) ==
    IF sc # {} /\ sp # {} THEN First(sc).strike + First(sp).strike
    ELSE IF sc # {} THEN 2 * First(sc).strike
    ELSE 2 * First(sp).strike

CallMargin(sc, u2) ==
    IF sc = {} THEN 0
    ELSE LET q       == First(sc).leg_quantity
             credit  == 0 - EntryPremiumSigned(First(sc))
             otm     == 50 * Max(0, 2 * First(sc).strike - u2) * q
             method1 == 10 * u2 * q - otm + credit
             method2 == 5 * u2 * q + credit
         IN Max(method1, method2)

PutMargin(sp, u2) ==
    IF sp = {} THEN 0
    ELSE LET q       == First(sp).leg_quantity
             credit  == 0 - EntryPremiumSigned(First(sp))
             otm     == 50 * Max(0, u2 - 2 * First(sp).strike) * q
             method1 == 10 * u2 * q - otm + credit
             method2 == 10 * First(sp).strike * q + credit
         IN Max(method1, method2)

SideMin(a, b) == Min(a, b)
SideMax(a, b) == Max(a, b)

\* max(capital_total, 0.0)
FloorNone(x) == x
FloorZero(x) == Max(x, 0)

\* width_call == 0.0 and width_put == 0.0
NoWing(wc, wp) == wc = 0 /\ wp = 0

ComputeCondorCapitalForGroup(g) ==
    LET sc == Slot(g, "CALL", "SELL")
        lc == Slot(g, "CALL", "BUY")
        sp == Slot(g, "PUT", "SELL")
        lp == Slot(g, "PUT", "BUY")
    IN IF lc = {} /\ lp = {} /\ (sc # {} \/ sp # {})
       THEN SideMax(CallMargin(sc, UnderlyingEst2(sc, sp)),
                    PutMargin(sp, UnderlyingEst2(sc, sp)))
       ELSE IF sc = {} \/ lc = {} \/ sp = {} \/ lp = {} THEN NaN
       ELSE LET width_call == Max(0, First(lc).strike - First(sc).strike)
                width_put  == Max(0, First(sp).strike - First(lp).strike)
                spreads_count ==
                    Min(Min(First(sc).leg_quantity, First(lc).leg_quantity),
                        Min(First(sp).leg_quantity, First(lp).leg_quantity))
                credit_total ==
                    0 - SumOver(g, [r \in g |-> EntryPremiumSigned(r)])
                max_wing_total ==
                    Max(width_call, width_put) * CONTRACT_MULTIPLIER * spreads_count
            IN IF NoWing(width_call, width_put) THEN NaN
               ELSE IF spreads_count <= 0 THEN NaN
               ELSE FloorZero(max_wing_total - credit_total)

\* ---- inputs of the capital model
CapStrikes == {15, 20, 25}
CapPrices  == {1, 4}

CapRows ==
    [leg_type : {"CALL", "PUT"}, leg_direction : {"SELL", "BUY"},
     strike : CapStrikes, leg_quantity : 1 .. MaxQty, entry_last : CapPrices]

InitCap ==
    /\ DedupIdle /\ RunIdle /\ LegIdle /\ StratIdle /\ ValIdle /\ SpreadIdle /\ IVIdle /\ SiteIdle /\ LegObjIdle /\ TickerIdle /\ BisIdle
    /\ group = {} /\ capital = 0 /\ cphase = "load"

\* the group gains the row of one more leg
AddLeg(r) ==
    /\ cphase = "load"
    /\ Slot(group, r.leg_type, r.leg_direction) = {}
    /\ group' = group \cup {r}
    /\ UNCHANGED <<dedupVars, bisVars, tickerVars, legObjVars, siteVars, ivVars, spreadVars, runVars, legVars, stratVars, valVars, capital, cphase>>

\* .apply(_compute_condor_capital_for_group) on the group
ComputeCapital ==
    /\ cphase = "load"
    /\ group # {}
    /\ capital' = ComputeCondorCapitalForGroup(group)
    /\ cphase' = "done"
    /\ UNCHANGED <<dedupVars, bisVars, tickerVars, legObjVars, siteVars, ivVars, spreadVars, runVars, legVars, stratVars, valVars, group>>

NextCap ==
    \/ \E r \in CapRows : AddLeg(r)
    \/ ComputeCapital

SpecCap == InitCap /\ [][NextCap]_vars

\* =================================================================
\* Valuation: summarize_hold_to_maturity_strategy_from_entries
\* (ratios are kept exact as numerator and denominator; the final
\*  rounding to 3 decimals is not modelled)
\* =================================================================
NumEntryDates == 2              \* entry dates of the valuation model
MaxEntries == NumEntryDates + 1 \* rows of tidy_entries in the valuation model

\* pd.NA, the undefined marker of a ratio
NA == [num |-> 0, den |-> 0]

Ratio(a, b) == [num |-> a, den |-> b]

\* fetch_expiry_quotes: dropna on the entry columns, then the inner join of
\* the entries with the options table on the contract, at trade_date = expiry
FetchExpiryQuotes(work, tab) ==
    UNION { { [row |-> r, quote_last |-> q.last,
               profit |-> CONTRACT_MULTIPLIER * (q.last - r.entry_last)] :
                q \in {x \in tab : /\ x.expiry = r.expiry /\ x.cp = r.cp
                                   /\ x.strike = r.strike
                                   /\ x.trade_date = r.expiry} } :
            r \in {w \in work : w.entry_last # NULL} }

\* expq.merge(work) with leg_pnl and entry_premium_signed attached
MergedRow(x) ==
    [entry_date |-> x.row.entry_date, expiry |-> x.row.expiry,
     cp |-> x.row.cp, strike |-> x.row.strike, entry_last |-> x.row.entry_last,
     leg_index |-> x.row.leg_index, leg_direction |-> x.row.leg_direction,
     leg_type |-> x.row.leg_type, leg_quantity |-> x.row.leg_quantity,
     profit |-> x.profit,
     leg_pnl |-> x.profit * Sign(x.row.leg_direction) * x.row.leg_quantity,
     entry_premium_signed |-> EntryPremiumSigned(x.row)]

Merged(work, tab) == {MergedRow(x) : x \in FetchExpiryQuotes(work, tab)}

\* groupby(["entry_date", "expiry"])
GroupKeys(mg) == {<<r.entry_date, r.expiry>> : r \in mg}
GroupOf(mg, k) == {r \in mg : r.entry_date = k[1] /\ r.expiry = k[2]}

NetEntryPremium(mg, k) ==
    SumOver(GroupOf(mg, k), [r \in GroupOf(mg, k) |-> r.entry_premium_signed])

\* abs(net_entry_premium) > EPS, on amounts that are whole cents
AboveNoiseAlways(nep) == TRUE
AboveNoise(nep) == nep # 0

Allowed(mg) == {k \in GroupKeys(mg) : AboveNoise(NetEntryPremium(mg, k))}

\* _safe_roc_like
SafeRocLike(pnl, nep) == IF nep = 0 THEN NA ELSE Ratio(pnl, 0 - nep)

\* _safe_div
SafeDiv(a, b) == IF b = NaN \/ b = 0 THEN NA ELSE Ratio(a, b)

Outcome(mg, k) ==
    LET g   == GroupOf(mg, k)
        pnl == SumOver(g, [r \in g |-> r.leg_pnl])
        nep == NetEntryPremium(mg, k)
        cap == ComputeCondorCapitalForGroup(g)
    IN [entry_date |-> k[1], expiry |-> k[2],
        legs |-> Cardinality({r.leg_index : r \in g}),
        total_contracts |-> SumOver(g, [r \in g |-> r.leg_quantity]),
        portfolio_pnl |-> pnl, net_entry_premium |-> nep,
        roc_like_metric |-> SafeRocLike(pnl, nep),
        capital |-> cap, roc |-> SafeDiv(pnl, cap)]

\* sort_values(["entry_date", "expiry"])
RECURSIVE SortOutcomes(_)
SortOutcomes(os) ==
    IF os = {} THEN <<>>
    ELSE LET first == CHOOSE o \in os : \A x \in os :
                         ~LexBefore(<<x.entry_date, x.expiry>>, <<o.entry_date, o.expiry>>)
         IN <<first>> \o SortOutcomes(os \ {first})

\* total_pnl = summary["portfolio_pnl"].fillna(0).sum()
TotalPnl(os) == SumOver(os, [o \in os |-> o.portfolio_pnl])

\* total_cap = summary["capital"].fillna(0).sum()
TotalCap(os) == SumOver(os, [o \in os |-> IF o.capital = NaN THEN 0 ELSE o.capital])

\* total_credit = -summary["net_entry_premium"].fillna(0).sum()
TotalCredit(os) == 0 - SumOver(os, [o \in os |-> o.net_entry_premium])

\* the early returns: a bare dict, no per-entry frame
BareDict ==
    [kind |-> "dict", roc |-> Ratio(0, 1), return_on_credit |-> NA,
     win_rate |-> Ratio(0, 1), n_entries |-> 0, outcomes |-> <<>>]

Summary(os) ==
    [kind |-> "tuple",
     roc |-> IF TotalCap(os) > 0 THEN Ratio(TotalPnl(os), TotalCap(os)) ELSE Ratio(0, 1),
     return_on_credit |->
         IF TotalCredit(os) > 0 THEN Ratio(TotalPnl(os), TotalCredit(os)) ELSE Ratio(0, 1),
     win_rate |-> Ratio(Cardinality({o \in os : o.portfolio_pnl > 0}), Cardinality(os)),
     n_entries |-> Cardinality(os),
     outcomes |-> SortOutcomes(os)]

SummarizeHoldToMaturity(work, tab) ==
    IF work = {} THEN BareDict
    ELSE LET mg == Merged(work, tab)
         IN IF Allowed(mg) = {} THEN BareDict
            ELSE Summary({Outcome(mg, k) : k \in Allowed(mg)})

\* ---- inputs of the valuation model
ValLeg(d, t) == [direction |-> d, opt_type |-> t, quantity |-> 1]

ValStrategies ==
    { <<ValLeg("SELL", "CALL"), ValLeg("SELL", "PUT")>>,
      <<ValLeg("SELL", "CALL"), ValLeg("BUY", "PUT")>>,
      <<ValLeg("SELL", "PUT"),  ValLeg("BUY", "PUT")>> }

\* the strike each leg resolves to
ValStrike(l) ==
    IF l.opt_type = "CALL" THEN 110 ELSE IF l.direction = "SELL" THEN 100 ELSE 95

ValExpiries == {NumEntryDates + 1, NumEntryDates + 2}
ValPrices   == {1, 3}

\* the last price of a contract on its expiry day: the underlying closes
\* between the strikes at the first expiry and at 92 at the second
ExpiryLast(c, k, e) ==
    IF e = NumEntryDates + 2 /\ c = "P" THEN Max(0, k - 92) ELSE 0

ExpiryQuote(r) ==
    [trade_date |-> r.expiry, expiry |-> r.expiry, cp |-> r.cp, strike |-> r.strike,
     last |-> ExpiryLast(r.cp, r.strike, r.expiry)]

TidyRow(d, i, e, p) ==
    [entry_date |-> d, expiry |-> e, cp |-> LegCp(strat[i]),
     strike |-> ValStrike(strat[i]), entry_last |-> p,
     leg_index |-> i - 1, leg_direction |-> strat[i].direction,
     leg_type |-> strat[i].opt_type, leg_quantity |-> strat[i].quantity]

InitVal ==
    /\ DedupIdle /\ RunIdle /\ LegIdle /\ StratIdle /\ CapIdle /\ SpreadIdle /\ IVIdle /\ SiteIdle /\ LegObjIdle /\ TickerIdle /\ BisIdle
    /\ strat \in ValStrategies
    /\ entries = {} /\ xtable = {} /\ result = <<>> /\ vphase = "load"

\* the strategy resolver returned one more row; the options table holds the
\* contract's expiry-day quote (quoted) or not
AddEntry(d, i, e, p, quoted) ==
    LET r == TidyRow(d, i, e, p) IN
    /\ vphase = "load"
    /\ Cardinality(entries) < MaxEntries
    /\ \A x \in entries : ~(x.entry_date = r.entry_date /\ x.leg_index = r.leg_index)
    /\ (\E x \in entries : ExpiryQuote(x) = ExpiryQuote(r)) =>
           (quoted <=> ExpiryQuote(r) \in xtable)
    /\ entries' = entries \cup {r}
    /\ xtable' = IF quoted THEN xtable \cup {ExpiryQuote(r)} ELSE xtable
    /\ UNCHANGED <<dedupVars, bisVars, tickerVars, legObjVars, siteVars, ivVars, spreadVars, runVars, legVars, stratVars, capVars, strat, result, vphase>>

\* one call of summarize_hold_to_maturity_strategy_from_entries
Summarize ==
    /\ vphase = "load"
    /\ result' = SummarizeHoldToMaturity(entries, xtable)
    /\ vphase' = "done"
    /\ UNCHANGED <<dedupVars, bisVars, tickerVars, legObjVars, siteVars, ivVars, spreadVars, runVars, legVars, stratVars, capVars, strat, entries, xtable>>

NextVal ==
    \/ \E d \in 1 .. NumEntryDates, i \in DOMAIN strat, e \in ValExpiries,
          p \in ValPrices, quoted \in BOOLEAN :
            AddEntry(d, i, e, p, quoted)
    \/ Summarize

SpecVal == InitVal /\ [][NextVal]_vars

\* =================================================================
\* Put-spread summary: summarize_put_spread_trades
\* =================================================================
NumTradeDates == 2      \* entry dates of the put-spread model

\* float division as pandas performs it: x / 0 is inf or -inf, 0 / 0 is NaN
Inf(a) == [num |-> IF a > 0 THEN 1 ELSE 0 - 1, den |-> 0]
NaNRatio == [num |-> NULL, den |-> NULL]
FloatDiv(a, b) ==
    IF b # 0 THEN Ratio(a, b) ELSE IF a = 0 THEN NaNRatio ELSE Inf(a)

\* d[f"short_entry_last_{pricing}"], d[f"long_entry_last_{pricing}"]
ShortEntryLast(t, pr) ==
    IF pr = "mid" THEN t.short_entry_last_mid ELSE t.short_entry_last_worst
LongEntryLast(t, pr) ==
    IF pr = "mid" THEN t.long_entry_last_mid ELSE t.long_entry_last_worst

\* d = d[d["short_entry_last"] > d["long_entry_last"]]
HasCredit(t, pr) == ShortEntryLast(t, pr) > LongEntryLast(t, pr)

\* one row of detail_df
SpreadDetail(t, pr) ==
    LET short_pnl  == 0 - (t.short_exit_last - ShortEntryLast(t, pr)) * CONTRACT_MULTIPLIER
        long_pnl   == (t.long_exit_last - LongEntryLast(t, pr)) * CONTRACT_MULTIPLIER
        pnl        == short_pnl + long_pnl
        net_credit == ShortEntryLast(t, pr) - LongEntryLast(t, pr)
        width      == t.short_strike - t.long_strike
        cap        == (width - net_credit) * CONTRACT_MULTIPLIER
    IN [ticker |-> t.ticker, entry_date |-> t.entry_date, expiry |-> t.expiry,
        portfolio_pnl |-> pnl,
        net_entry_premium |-> 0 - net_credit * CONTRACT_MULTIPLIER,
        return_on_credit |-> FloatDiv(pnl, net_credit * CONTRACT_MULTIPLIER),
        capital |-> cap,
        roc |-> FloatDiv(pnl, cap)]

\* the per-ticker summary
SpreadSummary(ticker, ds) ==
    LET total_pnl    == SumOver(ds, [d \in ds |-> d.portfolio_pnl])
        total_credit == 0 - SumOver(ds, [d \in ds |-> d.net_entry_premium])
        total_cap    == SumOver(ds, [d \in ds |-> d.capital])
    IN [ticker |-> ticker, n_entries |-> Cardinality(ds),
        roc |-> IF total_cap > 0 THEN Ratio(total_pnl, total_cap) ELSE Ratio(0, 1),
        return_on_credit |->
            IF total_credit > 0 THEN Ratio(total_pnl, total_credit) ELSE Ratio(0, 1),
        win_rate |-> Ratio(Cardinality({d \in ds : d.portfolio_pnl > 0}), Cardinality(ds))]

SummarizePutSpreadTrades(df, pr) ==
    LET ds == {SpreadDetail(t, pr) : t \in {x \in df : HasCredit(x, pr)}}
    IN [summaries |-> {SpreadSummary(tk, {d \in ds : d.ticker = tk}) :
                          tk \in {d.ticker : d \in ds}},
        detail |-> ds]

\* ---- inputs of the put-spread model: a 100 / 95 put spread per entry date
SpreadShortPrices == {[mid |-> 6, worst |-> 5], [mid |-> 3, worst |-> 2]}
SpreadLongPrices  == {[mid |-> 1, worst |-> 2], [mid |-> 3, worst |-> 3]}
SpreadExits       == {[short |-> 0, long |-> 0], [short |-> 8, long |-> 3]}

SpreadTrade(d, sh, lg, ex) ==
    [ticker |-> "A", entry_date |-> d, expiry |-> NumTradeDates + 1,
     short_strike |-> 100, long_strike |-> 95,
     short_entry_last_mid |-> sh.mid, short_entry_last_worst |-> sh.worst,
     long_entry_last_mid |-> lg.mid, long_entry_last_worst |-> lg.worst,
     short_exit_last |-> ex.short, long_exit_last |-> ex.long]

InitSpread ==
    /\ DedupIdle /\ RunIdle /\ LegIdle /\ StratIdle /\ CapIdle /\ ValIdle /\ IVIdle /\ SiteIdle /\ LegObjIdle /\ TickerIdle /\ BisIdle
    /\ trades = {} /\ pricing = "" /\ tsum = <<>> /\ tphase = "load"

\* fetch_put_spread_trades returned one more row (one per entry date)
AddTrade(d, sh, lg, ex) ==
    /\ tphase = "load"
    /\ \A t \in trades : t.entry_date # d
    /\ trades' = trades \cup {SpreadTrade(d, sh, lg, ex)}
    /\ UNCHANGED <<dedupVars, bisVars, tickerVars, legObjVars, siteVars, ivVars, runVars, legVars, stratVars, capVars, valVars, pricing, tsum,
                   tphase>>

\* one call of summarize_put_spread_trades
SummarizeSpread(pr) ==
    /\ tphase = "load"
    /\ pricing' = pr
    /\ tsum' = SummarizePutSpreadTrades(trades, pr)
    /\ tphase' = "done"
    /\ UNCHANGED <<dedupVars, bisVars, tickerVars, legObjVars, siteVars, ivVars, runVars, legVars, stratVars, capVars, valVars, trades>>

\* put_spread_study: both regimes are summarised from the same df_all
PutSpreadStudy ==
    /\ tphase = "load"
    /\ pricing' = "mid+worst"
    /\ tsum' = [summaries |-> SummarizePutSpreadTrades(trades, "mid").summaries,
                detail |-> SummarizePutSpreadTrades(trades, "mid").detail,
                summaries_worst |-> SummarizePutSpreadTrades(trades, "worst").summaries,
                detail_worst |-> SummarizePutSpreadTrades(trades, "worst").detail]
    /\ tphase' = "done"
    /\ UNCHANGED <<dedupVars, bisVars, tickerVars, runVars, legVars, stratVars, capVars, valVars, ivVars, siteVars,
                   legObjVars, trades>>

NextSpread ==
    \/ \E d \in 1 .. NumTradeDates, sh \in SpreadShortPrices, lg \in SpreadLongPrices,
          ex \in SpreadExits : AddTrade(d, sh, lg, ex)
    \/ \E pr \in {"mid", "worst"} : SummarizeSpread(pr)
    \/ PutSpreadStudy

SpecSpread == InitSpread /\ [][NextSpread]_vars

\* =================================================================
\* Implied volatility: commons/bs.py
\* =================================================================
\* Volatilities are in hundredths (0.30 is 30), ln(S/K) in hundredths,
\* T in hundredths of a year and sqrt(T) in tenths; r = q = 0, the defaults
\* of implied_vol.  A price is either known exactly, when both normal CDFs
\* are saturated in double precision, or it is Open: some value the model
\* does not compute, and every branch that depends on it is taken
\* nondeterministically.
max_iter   == 100
sigma_init == 30

Open      == [exact |-> FALSE, v |-> 0]
Exact(n)  == [exact |-> TRUE, v |-> n]
Known(s)  == [known |-> TRUE, v |-> s]
Unknown   == [known |-> FALSE, v |-> 0]

\* math.log(S / K) for S = 100, to two decimals
LogSK(K) == IF K = 200 THEN 0 - 69 ELSE 0
\* math.sqrt(T)
SqrtT(T) == IF T = 1 THEN 1 ELSE 0

\* _d1_d2 raises ValueError
D1D2Raises(a, s) == s <= 0 \/ a.T <= 0
\* d1 and d2 as fractions over the common denominator DDen
D1Num(a, s) == 20000 * LogSK(a.K) + s * s * SqrtT(a.T) * SqrtT(a.T)
D2Num(a, s) == 20000 * LogSK(a.K) - s * s * SqrtT(a.T) * SqrtT(a.T)
DDen(a, s)  == 2000 * s * SqrtT(a.T)

\* _norm_cdf: math.erf(x / sqrt(2)) is exactly -1.0 for x <= -9 and exactly
\* 1.0 for x >= 9, so the CDF is exactly 0.0 or 1.0 there
NormCdf(num, den) ==
    IF num <= (0 - 9) * den THEN Exact(0)
    ELSE IF num >= 9 * den THEN Exact(1)
    ELSE Open

BsPrice(a, s) ==
    LET c1 == NormCdf(D1Num(a, s), DDen(a, s))
        c2 == NormCdf(D2Num(a, s), DDen(a, s))
    IN IF ~(c1.exact /\ c2.exact) THEN Open
       ELSE IF a.opt_type = "call" THEN Exact(a.S * c1.v - a.K * c2.v)
       ELSE Exact(a.K * (1 - c2.v) - a.S * (1 - c1.v))

\* vega < 1e-12 for certain: _norm_pdf(d1) <= exp(-40.5) when |d1| >= 9
VegaFlat(a, s) == NormCdf(D1Num(a, s), DDen(a, s)).exact

\* the price handed to implied_vol: bs_price at sigma_true for a round trip,
\* or a price outside [bs_price(sigma_lo), bs_price(sigma_hi)] by more than tol
PriceOf(a) == IF a.src = "roundtrip" THEN BsPrice(a, a.sigma_true) ELSE Open

\* abs(diff) < tol at the iterate sg: the values it can take
SmallAt(a, sg) ==
    IF a.src = "outside" THEN {FALSE}
    ELSE IF sg.known /\ sg.v = a.sigma_true THEN {TRUE}
    ELSE IF sg.known /\ BsPrice(a, sg.v).exact /\ PriceOf(a).exact
         THEN {BsPrice(a, sg.v).v = PriceOf(a).v}
    \* at the money the prices at 0.05 and 0.30 differ by 0.997 (T = 0.01)
    ELSE IF sg.known THEN {FALSE}
    ELSE BOOLEAN
\* v < 1e-12 at the iterate sg
FlatAt(a, sg) == IF sg.known /\ VegaFlat(a, sg.v) THEN {TRUE} ELSE BOOLEAN

Obs(r, s, f, x) == [raises |-> r, small |-> s, flat |-> f, next |-> x]
NoObs == Obs(FALSE, FALSE, FALSE, "in")

\* what one iteration of the Newton loop can compute; a value the iteration
\* does not reach is left at its default
NewtonObs ==
    IF D1D2Raises(iv_in, 1) THEN {Obs(TRUE, FALSE, FALSE, "in")}
    ELSE {o \in {Obs(FALSE, s, f, x) : s \in SmallAt(iv_in, sigma),
                                      f \in FlatAt(iv_in, sigma),
                                      x \in {"neg", "in", "above"}} :
            /\ o.small => (o.flat = (TRUE \in FlatAt(iv_in, sigma) /\ ~(FALSE \in FlatAt(iv_in, sigma))) /\ o.next = "in")
            /\ o.flat => o.next = "in"}

\* sigma <= 0 or sigma > sigma_hi
LeftRange(o) == o.next # "in"
\* v < 1e-12
FlatVega(o) == o.flat
\* for _ in range(max_iter)
MoreIterationsOneMore(n) == n <= max_iter
MoreIterations(n) == n < max_iter

Pending    == [kind |-> "pending", sigma |-> Unknown, converged |-> FALSE]
Returned(sg, c) == [kind |-> "value", sigma |-> sg, converged |-> c]
ReturnedNone == [kind |-> "none", sigma |-> Unknown, converged |-> FALSE]
Raised     == [kind |-> "raise", sigma |-> Unknown, converged |-> FALSE]

\* f_lo * f_hi > 0 is false: bs_price is monotone in sigma, so a round-trip
\* price lies between bs_price(sigma_lo) and bs_price(sigma_hi)
Bracketed(a) == a.src = "roundtrip"

\* ---- inputs of the implied-volatility model
IVInputs ==
    {[S |-> 100, K |-> k, T |-> t, opt_type |-> ot, src |-> "roundtrip", sigma_true |-> st] :
        k \in {100, 200}, t \in {0, 1}, ot \in {"call", "put"}, st \in {5, 30}}
    \cup
    {[S |-> 100, K |-> k, T |-> t, opt_type |-> ot, src |-> "outside", sigma_true |-> 0] :
        k \in {100, 200}, t \in {0, 1}, ot \in {"call", "put"}}

InitIV ==
    /\ DedupIdle /\ RunIdle /\ LegIdle /\ StratIdle /\ CapIdle /\ ValIdle /\ SpreadIdle /\ SiteIdle /\ LegObjIdle /\ TickerIdle /\ BisIdle
    /\ iv_in \in IVInputs
    /\ ipc = "newton" /\ sigma = Known(sigma_init)
    /\ n_newton = 0 /\ n_bisect = 0 /\ newton_exit = ""
    /\ iv_out = Pending /\ obs = NoObs

\* one iteration of the Newton loop
NewtonStep(r, s, f, x) ==
    /\ ipc = "newton" /\ MoreIterations(n_newton)
    /\ Obs(r, s, f, x) \in NewtonObs
    /\ n_newton' = n_newton + 1
    /\ obs' = Obs(r, s, f, x)
    /\ IF r
       THEN ipc' = "bracket" /\ newton_exit' = "value_error"
            /\ UNCHANGED <<sigma, iv_out>>
       ELSE IF s
       THEN ipc' = "done" /\ newton_exit' = "converged"
            /\ iv_out' = Returned(sigma, TRUE) /\ UNCHANGED sigma
       ELSE IF FlatVega(Obs(r, s, f, x))
       THEN ipc' = "bracket" /\ newton_exit' = "flat_vega"
            /\ UNCHANGED <<sigma, iv_out>>
       ELSE /\ sigma' = Unknown
            /\ UNCHANGED iv_out
            /\ IF LeftRange(Obs(r, s, f, x))
               THEN ipc' = "bracket" /\ newton_exit' = "left_range"
               ELSE IF MoreIterations(n_newton + 1)
               THEN UNCHANGED <<ipc, newton_exit>>
               ELSE ipc' = "bracket" /\ newton_exit' = "exhausted"
    /\ UNCHANGED <<dedupVars, bisVars, tickerVars, legObjVars, siteVars, runVars, legVars, stratVars, capVars, valVars, spreadVars, iv_in,
                   n_bisect>>

\* lines 66-71: the bracket of the bisection
Bracket ==
    /\ ipc = "bracket"
    /\ IF D1D2Raises(iv_in, 1)
       THEN ipc' = "done" /\ iv_out' = Raised
       ELSE IF ~Bracketed(iv_in)
       THEN ipc' = "done" /\ iv_out' = ReturnedNone
       ELSE ipc' = "bisect" /\ UNCHANGED iv_out
    /\ UNCHANGED <<dedupVars, bisVars, tickerVars, legObjVars, siteVars, runVars, legVars, stratVars, capVars, valVars, spreadVars, iv_in,
                   sigma, n_newton, n_bisect, newton_exit, obs>>

\* one iteration of the bisection loop; after the last one the midpoint is
\* returned whether or not it converged
BisectStep(small) ==
    /\ ipc = "bisect" /\ MoreIterations(n_bisect)
    /\ n_bisect' = n_bisect + 1
    /\ obs' = Obs(FALSE, small, FALSE, "in")
    /\ IF small
       THEN ipc' = "done" /\ iv_out' = Returned(Unknown, TRUE)
       ELSE IF MoreIterations(n_bisect + 1)
       THEN UNCHANGED <<ipc, iv_out>>
       ELSE ipc' = "done" /\ iv_out' = Returned(Unknown, FALSE)
    /\ UNCHANGED <<dedupVars, bisVars, tickerVars, legObjVars, siteVars, runVars, legVars, stratVars, capVars, valVars, spreadVars, iv_in,
                   sigma, n_newton, newton_exit>>

NextIV ==
    \/ \E r, s, f \in BOOLEAN, x \in {"neg", "in", "above"} : NewtonStep(r, s, f, x)
    \/ Bracket
    \/ \E small \in BOOLEAN : BisectStep(small)

\* the interpreter keeps executing the function until it returns or raises
SpecIV == InitIV /\ [][NextIV]_vars /\ WF_vars(NextIV)

\* =================================================================
\* Query sites: the batch rewrite and the resolver queries on one table
\* =================================================================
MaxSiteRows == 3     \* rows of the quote table in the query-site model

\* PARTITION BY ticker, trade_date, cp, strike, expiry (dedup_month); the put
\* scan partitions rows of one cp by ticker, trade_date, strike, expiry
SameQuoteKey(r, q) ==
    /\ r.ticker = q.ticker /\ r.trade_date = q.trade_date /\ r.cp = q.cp
    /\ r.strike = q.strike /\ r.expiry = q.expiry
QuoteKeyPart(tab, q) == {r \in tab : SameQuoteKey(r, q)}

\* the rows the CTAS of dedup_month may keep, and those it certainly drops
BatchMayKeep(tab) == {q \in tab : q \in DedupFirst(QuoteKeyPart(tab, q))}
BatchRemoves(tab) == tab \ BatchMayKeep(tab)

\* the WHERE clause of put_scan in fetch_strangle_trades:
\* (ask - bid) / ((ask + bid) / 2) <= 0.35 is 200 (ask - bid) <= 35 (ask + bid)
PutScanWhere(q, a) ==
    /\ q.ticker = a.ticker /\ q.cp = "P"
    /\ q.trade_date >= a.ts_start /\ q.trade_date <= a.ts_end
    /\ q.bid # NULL /\ q.bid > 0 /\ q.ask # NULL /\ q.ask > 0
    /\ q.open_interest # NULL /\ q.open_interest > 0
    /\ 200 * (q.ask - q.bid) <= 35 * (q.ask + q.bid)
    /\ q.delta # NULL

\* put_cand: dedup_rn = 1 among the rows that passed the WHERE clause
PutCand(tab, a) ==
    LET scanned == {q \in tab : PutScanWhere(q, a)}
    IN {q \in scanned : q \in DedupFirst(QuoteKeyPart(scanned, q))}

\* ORDER BY expiry_diff, ABS(delta - target), strike DESC
PutOrderKeys(q, a) ==
    <<Abs((q.trade_date + a.dte) - q.expiry), Abs(q.delta - (0 - a.put_delta)), 0 - q.strike>>

\* put_leg: rn = 1 per (ticker, entry_date) within the error limits
PutLeg(tab, a) ==
    LET c == PutCand(tab, a)
    IN {q \in c :
          /\ \A r \in c : (r.ticker = q.ticker /\ r.trade_date = q.trade_date) =>
                ~LexBefore(PutOrderKeys(r, a), PutOrderKeys(q, a))
          /\ PutOrderKeys(q, a)[1] <= a.max_dte_err
          /\ PutOrderKeys(q, a)[2] <= a.max_delta_err}

\* the table rows query_entries_range_for_leg may number 1
LegSiteRows(tab, a) ==
    LET c == Cand(tab, a)
    IN UNION {RankFirst(c, a, d) : d \in {q.trade_date : q \in c}}

\* ---- inputs of the query-site model: put quotes of one day, the 100 strike
\* with several rows for the same key
SiteQuotes ==
    {[ticker |-> "A", trade_date |-> 1, expiry |-> 3, cp |-> "P", strike |-> 100,
      delta |-> d, bid |-> b, ask |-> 12, open_interest |-> oi] :
        d \in {0 - 24, 0 - 31}, b \in {0, 10, 11}, oi \in {3, 5}}
    \cup
    {[ticker |-> "A", trade_date |-> 1, expiry |-> 3, cp |-> "P", strike |-> 95,
      delta |-> 0 - 20, bid |-> 10, ask |-> 12, open_interest |-> 5]}

SiteLegArgs ==
    [ticker : {"A"},
     leg : [direction : {"SELL"}, opt_type : {"PUT"}, quantity : {1},
            strike_delta : {25, 30}, dte : {2}],
     mode : {"nearest"}, ts_start : {1}, ts_end : {1}]

SiteStrangleArgs ==
    [ticker : {"A"}, put_delta : {25, 30}, dte : {2}, ts_start : {1}, ts_end : {1},
     max_delta_err : {10}, max_dte_err : {14}]

InitSites ==
    /\ DedupIdle /\ RunIdle /\ LegIdle /\ StratIdle /\ CapIdle /\ ValIdle /\ SpreadIdle /\ IVIdle /\ LegObjIdle /\ TickerIdle /\ BisIdle
    /\ site_tbl = {} /\ site_rows = {} /\ site_name = "" /\ qphase = "load"

\* a writer adds a quote row to the table
AddSiteQuote(q) ==
    /\ qphase = "load"
    /\ q \notin site_tbl
    /\ Cardinality(site_tbl) < MaxSiteRows
    /\ site_tbl' = site_tbl \cup {q}
    /\ UNCHANGED <<dedupVars, bisVars, tickerVars, legObjVars, runVars, legVars, stratVars, capVars, valVars, spreadVars, ivVars,
                   site_rows, site_name, qphase>>

\* query_entries_range_for_leg runs on the table
QueryLegSite(a) ==
    /\ qphase = "load"
    /\ site_rows' = LegSiteRows(site_tbl, a)
    /\ site_name' = "leg"
    /\ qphase' = "done"
    /\ UNCHANGED <<dedupVars, bisVars, tickerVars, legObjVars, runVars, legVars, stratVars, capVars, valVars, spreadVars, ivVars,
                   site_tbl>>

\* the put leg of fetch_strangle_trades runs on the table
QueryStrangleSite(a) ==
    /\ qphase = "load"
    /\ site_rows' = PutLeg(site_tbl, a)
    /\ site_name' = "strangle"
    /\ qphase' = "done"
    /\ UNCHANGED <<dedupVars, bisVars, tickerVars, legObjVars, runVars, legVars, stratVars, capVars, valVars, spreadVars, ivVars,
                   site_tbl>>

NextSites ==
    \/ \E q \in SiteQuotes : AddSiteQuote(q)
    \/ \E a \in SiteLegArgs : QueryLegSite(a)
    \/ \E a \in SiteStrangleArgs : QueryStrangleSite(a)

SpecSites == InitSites /\ [][NextSites]_vars

\* =================================================================
\* Leg objects: data/Leg.py
\* =================================================================
MaxLegObjects == 2     \* Leg objects alive in the Leg model

\* __post_init__: the three checks (a NaN strike_delta fails the second)
PostInitRaisesNoDte(l) ==
    \/ l.quantity <= 0
    \/ ~(l.strike_delta # NaN /\ 0 < l.strike_delta /\ l.strike_delta <= 100)
PostInitRaises(l) ==
    \/ l.quantity <= 0
    \/ ~(l.strike_delta # NaN /\ 0 < l.strike_delta /\ l.strike_delta <= 100)
    \/ l.dte < 1

\* the dataclass fields; the resolved fields default to None
LegObject(dir, ot, q, sd, dte0, rexp, rstrike, eprice, xprice) ==
    [direction |-> dir, opt_type |-> ot, quantity |-> q, strike_delta |-> sd,
     dte |-> dte0, resolved_expiry |-> rexp, resolved_strike |-> rstrike,
     entry_price |-> eprice, exit_price |-> xprice]

\* Leg(...): __init__ stores the arguments, __post_init__ validates them
Construct(l) ==
    /\ leg_args' = l
    /\ IF PostInitRaises(l)
       THEN leg_exc' = "ValueError" /\ objs' = objs
       ELSE leg_exc' = "none" /\ objs' = objs \cup {l}

InitLegObj ==
    /\ DedupIdle /\ RunIdle /\ LegIdle /\ StratIdle /\ CapIdle /\ ValIdle /\ SpreadIdle
    /\ IVIdle /\ SiteIdle /\ TickerIdle /\ BisIdle
    /\ objs = {} /\ leg_args = <<>> /\ leg_exc = "none"

\* Leg(direction, opt_type, quantity, strike_delta, dte)
NewLeg(dir, q, sd, dte0) ==
    /\ leg_exc # "idle"
    /\ Cardinality(objs) < MaxLegObjects
    /\ Construct(LegObject(dir, "PUT", q, sd, dte0, NULL, NULL, NULL, NULL))
    /\ UNCHANGED <<dedupVars, bisVars, tickerVars, runVars, legVars, stratVars, capVars, valVars, spreadVars, ivVars,
                   siteVars>>

\* leg.with_resolution(strike=..., expiry=..., entry_price=...)
WithResolution(l, strike, expiry, price) ==
    /\ l \in objs
    /\ Cardinality(objs) < MaxLegObjects
    /\ Construct(LegObject(l.direction, l.opt_type, l.quantity, l.strike_delta, l.dte,
                           expiry, strike, price, l.exit_price))
    /\ UNCHANGED <<dedupVars, bisVars, tickerVars, runVars, legVars, stratVars, capVars, valVars, spreadVars, ivVars,
                   siteVars>>

\* the last reference to a Leg goes away
DropLeg(l) ==
    /\ l \in objs
    /\ objs' = objs \ {l}
    /\ UNCHANGED <<dedupVars, bisVars, tickerVars, runVars, legVars, stratVars, capVars, valVars, spreadVars, ivVars,
                   siteVars, leg_args, leg_exc>>

LegQuantities == {0 - 1, 0, 1, 2}
LegDeltas     == {NaN, 0, 30, 100, 101}
LegDtes       == {0, 1}

NextLegObj ==
    \/ \E dir \in {"BUY", "SELL"}, q \in LegQuantities, sd \in LegDeltas, dte0 \in LegDtes :
          NewLeg(dir, q, sd, dte0)
    \/ \E l \in [direction : {"BUY", "SELL"}, opt_type : {"PUT"}, quantity : LegQuantities,
                 strike_delta : LegDeltas, dte : LegDtes, resolved_expiry : {NULL},
                 resolved_strike : {NULL}, entry_price : {NULL}, exit_price : {NULL}] :
          WithResolution(l, 100, 3, 1)
    \/ \E l \in [direction : {"BUY", "SELL"}, opt_type : {"PUT"}, quantity : LegQuantities,
                 strike_delta : LegDeltas, dte : LegDtes, resolved_expiry : {NULL, 3},
                 resolved_strike : {NULL, 100}, entry_price : {NULL, 1}, exit_price : {NULL}] :
          DropLeg(l)

SpecLegObj == InitLegObj /\ [][NextLegObj]_vars

\* =================================================================
\* Properties of the deduplication
\* =================================================================
OIRank(x) == IF x = NULL THEN 0 - 1 ELSE x

ExampleTable ==
    [r \in RowTypes |->
        IF r \in { [key |-> 1, open_interest |-> NULL, bid |-> 9],
                   [key |-> 1, open_interest |-> 5,    bid |-> 1],
                   [key |-> 1, open_interest |-> 5,    bid |-> 2],
                   [key |-> 1, open_interest |-> 3,    bid |-> 9] }
        THEN 1 ELSE 0]

\* C3: of the rows sharing one key the dedup query keeps exactly one, a row
\* of the highest open_interest (a missing one ranks below every value) and,
\* among those, of the highest bid; for open_interest = [None,5,5,3] and
\* bid = [9,1,2,9] it keeps the row with open_interest 5 and bid 2.
Thm_C3_DedupKeepsBest ==
    phase = "done" =>
        /\ \A k \in Keys :
             IF KeyRows(tbl, k) = {} THEN SumOver(KeyTypes(k), kept) = 0
             ELSE /\ SumOver(KeyTypes(k), kept) = 1
                  /\ \A r \in KeyRows(kept, k) :
                       /\ r \in KeyRows(tbl, k)
                       /\ \A s \in KeyRows(tbl, k) :
                            /\ OIRank(r.open_interest) >= OIRank(s.open_interest)
                            /\ s.open_interest = r.open_interest => r.bid >= s.bid
        /\ tbl = ExampleTable =>
             KeyRows(kept, 1) = {[key |-> 1, open_interest |-> 5, bid |-> 2]}

Wit_C3_Example == phase = "done" /\ tbl = ExampleTable

\* the statements of the current dedup_month call that ran, in order
StepOrder == <<"count", "count_dup", "ctas", "delete", "insert", "verify", "cleanup">>
Has(s, name) == \E i \in DOMAIN s : s[i][1] = name

\* C4: the DELETE and the INSERT on the live table run only when the run is
\* not a dry run, the duplicate-key count taken first was above zero and the
\* CTAS wrote more than zero rows; the statements of a month always run in
\* the order count, CTAS, DELETE, INSERT, verify; success is reported only
\* when the count read back equals the number of deduplicated rows.
Thm_C4_GuardedRewrite ==
    /\ \A i, j \in DOMAIN ops :
         i < j => \E a, b \in DOMAIN StepOrder :
                     a < b /\ ops[i][1] = StepOrder[a] /\ ops[j][1] = StepOrder[b]
    /\ (Has(ops, "delete") \/ Has(ops, "insert")) =>
         /\ ~dry_run
         /\ Has(ops, "count") /\ Has(ops, "count_dup") /\ Has(ops, "ctas")
         /\ ops[2][2] > 0
         /\ ops[3][2] > 0
    /\ Has(ops, "insert") => Has(ops, "delete")
    /\ Has(ops, "verify") => Has(ops, "insert")
    /\ (pc = "cleanup" /\ pending = "ok") =>
         /\ Has(ops, "verify") /\ ops[6][2] = ops[3][2]
         /\ m \in reported
    /\ \A x \in reported : x < m \/ (pc = "cleanup" /\ pending = "ok")

Wit_C4_Rewritten ==
    \E x \in Months : x \in reported /\ live[x] # orig[x] /\ pc = "done"

Destructive(log) == SelectSeq(log, LAMBDA e : e[1] \in {"ctas", "delete", "insert"})

\* C5: once a CTAS has written zero rows, or the count read back differs
\* from the deduplicated count, no CTAS, DELETE or INSERT runs any more, for
\* that month or a later one.
Thm_C5_FatalHalts ==
    [][fatal_hit => /\ Len(Destructive(ops')) <= Len(Destructive(ops))
                    /\ pc' \notin {"delete", "insert", "verify"}
                    /\ m' = m]_vars

Wit_C5_HaltedBeforeLaterMonth ==
    /\ pc = "crashed"
    /\ fatal_hit
    /\ pending \in {"zero_rows", "mismatch"}
    /\ m < NumMonths
    /\ CountDupKeys(live[m + 1]) > 0
    /\ ~dry_run

\* =================================================================
\* Properties of the capital computation
\* =================================================================
LegAt(t, d) == CHOOSE r \in group : r.leg_type = t /\ r.leg_direction = d
HasLeg(t, d) == \E r \in group : r.leg_type = t /\ r.leg_direction = d

FourLegs ==
    HasLeg("CALL", "SELL") /\ HasLeg("CALL", "BUY") /\ HasLeg("PUT", "SELL") /\ HasLeg("PUT", "BUY")

Premium(r) == r.entry_last * 100 * r.leg_quantity

\* premium received on the sold legs less premium paid on the bought legs
GroupCredit ==
    SumOver(group, [r \in group |->
        IF r.leg_direction = "SELL" THEN Premium(r) ELSE 0 - Premium(r)])

WingWidth ==
    Max(LegAt("CALL", "BUY").strike - LegAt("CALL", "SELL").strike,
        LegAt("PUT", "SELL").strike - LegAt("PUT", "BUY").strike)

MinQty ==
    CHOOSE q \in {r.leg_quantity : r \in group} :
        \A r \in group : q <= r.leg_quantity

WingAmount == WingWidth * 100 * MinQty

\* C6 as stated: for a group with a short call, a long call, a short put and
\* a long put the capital is the wider wing x 100 x the smallest quantity
\* less the total credit, and 0 whenever the credit exceeds that amount.
Cex_C6_CondorCapital ==
    (cphase = "done" /\ FourLegs) =>
        capital = IF GroupCredit > WingAmount THEN 0 ELSE WingAmount - GroupCredit

\* C6 amended: the same, for a group where at least one wing has a positive
\* width; when neither wing has a positive width the capital is undefined.
Thm_C6_CondorCapital ==
    (cphase = "done" /\ FourLegs) =>
        IF WingWidth > 0
        THEN capital = IF GroupCredit > WingAmount THEN 0 ELSE WingAmount - GroupCredit
        ELSE capital = NaN

Wit_C6_CreditExceedsWing ==
    cphase = "done" /\ FourLegs /\ WingWidth > 0 /\ GroupCredit > WingAmount

ShortOnly == group # {} /\ \A r \in group : r.leg_direction = "SELL"

\* twice the average of the short strikes present
TwiceUnderlying ==
    IF HasLeg("CALL", "SELL") /\ HasLeg("PUT", "SELL")
    THEN LegAt("CALL", "SELL").strike + LegAt("PUT", "SELL").strike
    ELSE 2 * (CHOOSE k \in {r.strike : r \in group} : TRUE)

\* twice the margin of a side: 20% of the underlying less the OTM amount,
\* or 10% of the base, whichever is larger, x 100 x quantity, plus the credit
TwiceSide(r, otm2, base2) ==
    Max(20 * TwiceUnderlying * r.leg_quantity - 100 * otm2 * r.leg_quantity,
        10 * base2 * r.leg_quantity) + 2 * Premium(r)

TwiceCallSide ==
    IF ~HasLeg("CALL", "SELL") THEN 0
    ELSE TwiceSide(LegAt("CALL", "SELL"),
                   Max(0, 2 * LegAt("CALL", "SELL").strike - TwiceUnderlying),
                   TwiceUnderlying)

TwicePutSide ==
    IF ~HasLeg("PUT", "SELL") THEN 0
    ELSE TwiceSide(LegAt("PUT", "SELL"),
                   Max(0, TwiceUnderlying - 2 * LegAt("PUT", "SELL").strike),
                   2 * LegAt("PUT", "SELL").strike)

\* C7: for a group of short legs only the capital is the larger of the
\* call-side and the put-side margin, each the larger of 20% x underlying -
\* OTM amount + credit and 10% x underlying (call) or strike (put) + credit,
\* x 100 x quantity, the underlying being the average of the short strikes
\* present; side margins of 500 and 800 give 800.
Thm_C7_StrangleCapital ==
    (cphase = "done" /\ ShortOnly) =>
        /\ 2 * capital = Max(TwiceCallSide, TwicePutSide)
        /\ (TwiceCallSide = 1000 /\ TwicePutSide = 1600) => capital = 800

Wit_C7_Sides500And800 ==
    cphase = "done" /\ ShortOnly /\ TwiceCallSide = 1000 /\ TwicePutSide = 1600

\* =================================================================
\* Properties of the valuation
\* =================================================================
Outcomes == {result.outcomes[i] : i \in DOMAIN result.outcomes}

EntryDatesIn(rows) == {r.entry_date : r \in rows}
RowsOn(d) == {r \in entries : r.entry_date = d}

\* every entry date of the input has a row of every leg of the strategy
AlignedInput ==
    \A d \in EntryDatesIn(entries) :
        {r.leg_index : r \in RowsOn(d)} = 0 .. (Len(strat) - 1)

\* C1: on an input holding every leg on every entry date, each outcome
\* aggregates all legs of the strategy, and an entry date with a leg that has
\* no expiry-day quote, or with legs of different expiries, has no outcome.
Cex_C1_OutcomeHasAllLegs ==
    (vphase = "done" /\ AlignedInput) =>
        /\ \A o \in Outcomes : o.legs = Len(strat)
        /\ \A d \in EntryDatesIn(entries) :
             ( \/ \E r \in RowsOn(d) : ExpiryQuote(r) \notin xtable
               \/ \E r1, r2 \in RowsOn(d) : r1.expiry # r2.expiry )
             => ~\E o \in Outcomes : o.entry_date = d

\* the legs an outcome was computed from
LegsOf(o) ==
    {r \in entries : /\ r.entry_date = o.entry_date /\ r.expiry = o.expiry
                     /\ ExpiryQuote(r) \in xtable}

\* neither a 4-leg iron condor nor short legs only
OtherShape(o) ==
    /\ \E r \in LegsOf(o) : r.leg_direction = "BUY"
    /\ Cardinality({<<r.leg_type, r.leg_direction>> : r \in LegsOf(o)}) < 4

DefinedOutcomes == {o \in Outcomes : ~OtherShape(o)}

\* C8: an outcome that is neither a 4-leg condor nor short-only has no
\* capital and no per-entry ROC, the pooled ROC is the P&L of the other
\* outcomes over their capital, and the premium metrics cover every outcome.
Cex_C8_UndefinedCapitalExcluded ==
    (vphase = "done" /\ result.kind = "tuple") =>
        /\ \A o \in Outcomes \ DefinedOutcomes : o.capital = NaN /\ o.roc = NA
        /\ SumOver(DefinedOutcomes, [o \in DefinedOutcomes |-> o.capital]) > 0 =>
             result.roc =
                 Ratio(SumOver(DefinedOutcomes, [o \in DefinedOutcomes |-> o.portfolio_pnl]),
                       SumOver(DefinedOutcomes, [o \in DefinedOutcomes |-> o.capital]))
        /\ result.n_entries = Cardinality(Outcomes)
        /\ 0 - SumOver(Outcomes, [o \in Outcomes |-> o.net_entry_premium]) > 0 =>
             result.return_on_credit =
                 Ratio(SumOver(Outcomes, [o \in Outcomes |-> o.portfolio_pnl]),
                       0 - SumOver(Outcomes, [o \in Outcomes |-> o.net_entry_premium]))

\* =================================================================
\* Properties of the strategy resolver
\* =================================================================
EntryDates(sq) == {sq[i].entry_date : i \in DOMAIN sq}

\* a quote of the leg's type exists on day d that meets the mode's expiry rule
LegResolvesOn(l, d) ==
    \E q \in quotes :
        /\ q.ticker = sargs.ticker /\ q.cp = LegCp(l) /\ q.trade_date = d
        /\ d >= sargs.ts_start /\ d <= sargs.ts_end
        /\ (sargs.mode = "exact" => q.expiry = d + l.dte)
        /\ (sargs.mode = "next_on_or_after" => q.expiry >= d + l.dte)

WeekdayPasses(d) ==
    LET wf == NormalizeWeekdays(sargs.entry_weekdays)
    IN wf = <<>> \/ wf[1] = {} \/ Weekday(d) \in wf[1]

QuoteDays(c) == {q.trade_date : q \in {x \in quotes : x.cp = c}}

\* C2: with require_all_legs the result holds exactly the entry dates that
\* pass the weekday filter and on which every leg of the strategy resolved,
\* with one row per leg on each of them; a call leg resolving on days
\* {1,2,3} and a put leg resolving on days {2,3,4} yield entries on {2,3}.
Thm_C2_AlignedDates ==
    (sphase = "done" /\ sargs.require_all_legs /\ Len(sargs.strategy) >= 1) =>
        /\ EntryDates(tidy) =
             {d \in Days : WeekdayPasses(d) /\
                 \A i \in DOMAIN sargs.strategy : LegResolvesOn(sargs.strategy[i], d)}
        /\ \A d \in EntryDates(tidy) : \A i \in DOMAIN sargs.strategy :
             Cardinality({j \in DOMAIN tidy :
                 tidy[j].entry_date = d /\ tidy[j].leg_index = i - 1}) = 1
        /\ ( /\ Len(sargs.strategy) = 2
             /\ sargs.strategy[1].opt_type = "CALL" /\ sargs.strategy[2].opt_type = "PUT"
             /\ QuoteDays("C") = {1, 2, 3} /\ QuoteDays("P") = {2, 3, 4}
             /\ sargs.entry_weekdays = <<>> )
           => EntryDates(tidy) = {2, 3}

Wit_C2_Example ==
    /\ sphase = "done" /\ sargs.require_all_legs
    /\ Len(sargs.strategy) = 2
    /\ sargs.strategy[1].opt_type = "CALL" /\ sargs.strategy[2].opt_type = "PUT"
    /\ QuoteDays("C") = {1, 2, 3} /\ QuoteDays("P") = {2, 3, 4}
    /\ sargs.entry_weekdays = <<>>

\* =================================================================
\* Properties of the leg resolver
\* =================================================================
\* the quotes of the leg's ticker and type on the entry date of row r
SameDay(r) ==
    {q \in quotes : /\ q.ticker = qargs.ticker /\ q.cp = LegCp(qargs.leg)
                    /\ q.trade_date = r.entry_date}

TargetExpiry(d) == d + qargs.leg.dte

\* C9: in exact mode a resolved contract expires on entry date + target
\* DTE; in next_on_or_after mode it has the earliest expiry of the day that
\* is on or after that date; in nearest mode no quote of the day has an
\* expiry closer to that date.
Thm_C9_ModeExpiry ==
    lphase = "done" =>
        \A r \in leg_rows :
            /\ qargs.mode = "exact" => r.expiry = TargetExpiry(r.entry_date)
            /\ qargs.mode = "next_on_or_after" =>
                 /\ r.expiry >= TargetExpiry(r.entry_date)
                 /\ \A q \in SameDay(r) :
                      q.expiry >= TargetExpiry(r.entry_date) => q.expiry >= r.expiry
            /\ qargs.mode = "nearest" =>
                 \A q \in SameDay(r) :
                     Abs(q.expiry - TargetExpiry(r.entry_date))
                        >= Abs(r.expiry - TargetExpiry(r.entry_date))

Wit_C9_ExpiryDecides ==
    /\ lphase = "done"
    /\ qargs.mode \in {"next_on_or_after", "nearest"}
    /\ \E r \in leg_rows : \E q \in SameDay(r) :
          /\ q.expiry # r.expiry
          /\ q.delta # NULL /\ r.delta # NULL
          /\ Abs(q.delta - DeltaTarget(qargs.leg)) < Abs(r.delta - DeltaTarget(qargs.leg))

\* the expiry criterion of the mode for a row or quote with the given
\* entry date and expiry
ExpiryRank(d, e) ==
    CASE qargs.mode = "exact" -> 0
      [] qargs.mode = "next_on_or_after" -> e
      [] OTHER -> Abs(e - TargetExpiry(d))

Qualifies(q) ==
    /\ q.trade_date >= qargs.ts_start /\ q.trade_date <= qargs.ts_end
    /\ (qargs.mode = "exact" => q.expiry = TargetExpiry(q.trade_date))
    /\ (qargs.mode = "next_on_or_after" => q.expiry >= TargetExpiry(q.trade_date))

\* quote q is strictly ahead of row r in the documented ranking
Ahead(q, r) ==
    LET eq == ExpiryRank(q.trade_date, q.expiry)
        er == ExpiryRank(r.entry_date, r.expiry)
        closer == q.delta # NULL /\
                  (r.delta = NULL \/ Abs(q.delta - DeltaTarget(qargs.leg))
                                       < Abs(r.delta - DeltaTarget(qargs.leg)))
        same == (q.delta = NULL /\ r.delta = NULL) \/
                (q.delta # NULL /\ r.delta # NULL /\
                 Abs(q.delta - DeltaTarget(qargs.leg))
                    = Abs(r.delta - DeltaTarget(qargs.leg)))
    IN \/ eq < er
       \/ eq = er /\ closer
       \/ eq = er /\ same /\ q.strike < r.strike

\* C10: the result holds at most one contract per entry date, that contract
\* is a qualifying quote of the day, and no qualifying quote of the day is
\* ahead of it by expiry criterion, then distance of delta to the target,
\* then strike.
Thm_C10_FirstPerDay ==
    lphase = "done" =>
        /\ \A r1, r2 \in leg_rows : r1.entry_date = r2.entry_date => r1 = r2
        /\ \A r \in leg_rows :
             /\ \E q \in SameDay(r) :
                  /\ Qualifies(q)
                  /\ q.expiry = r.expiry /\ q.strike = r.strike /\ q.delta = r.delta
             /\ \A q \in SameDay(r) : Qualifies(q) => ~Ahead(q, r)

Wit_C10_RankedAmongThree ==
    /\ lphase = "done"
    /\ \E r \in leg_rows : \E q1, q2 \in SameDay(r) :
          /\ Qualifies(q1) /\ Qualifies(q2)
          /\ q1.expiry = r.expiry /\ q2.expiry = r.expiry
          /\ q1.delta = r.delta /\ q1.strike > r.strike
          /\ q2.delta # NULL /\ r.delta # NULL
          /\ Abs(q2.delta - DeltaTarget(qargs.leg)) > Abs(r.delta - DeltaTarget(qargs.leg))

\* the signed target of the leg in hundredths: positive for a call,
\* negative for a put
SignedTarget ==
    IF qargs.leg.opt_type = "CALL" THEN qargs.leg.strike_delta
    ELSE 0 - qargs.leg.strike_delta

\* C11: the resolver ranks by the distance of delta to +strike_delta/100 for
\* a call leg and to -strike_delta/100 for a put leg: among the qualifying
\* quotes of the day with the returned expiry none with a delta is closer to
\* that target than the returned one; a PUT leg with strike_delta = 25 takes
\* delta -0.24 before delta -0.31 of the same day and expiry.
Thm_C11_SignedDeltaTarget ==
    lphase = "done" =>
        \A r \in leg_rows :
            /\ r.target_delta = SignedTarget
            /\ \A q \in SameDay(r) :
                 (Qualifies(q) /\ q.expiry = r.expiry /\ q.delta # NULL) =>
                    /\ r.delta # NULL
                    /\ Abs(r.delta - SignedTarget) <= Abs(q.delta - SignedTarget)
            /\ ( /\ qargs.leg.opt_type = "PUT" /\ qargs.leg.strike_delta = 25
                 /\ \E q \in SameDay(r) :
                      Qualifies(q) /\ q.expiry = r.expiry /\ q.delta = 0 - 24 )
               => r.delta # 0 - 31

Wit_C11_PutPrefersCloser ==
    /\ lphase = "done"
    /\ qargs.leg.opt_type = "PUT"
    /\ \E r \in leg_rows : \E q1, q2 \in SameDay(r) :
          /\ Qualifies(q1) /\ Qualifies(q2)
          /\ q1.expiry = r.expiry /\ q2.expiry = r.expiry
          /\ q1.delta = 0 - 24 /\ q2.delta = 0 - 31

\* C12: no resolved entry has a missing delta or a missing entry price.
Cex_C12_NoMissingValues ==
    lphase = "done" =>
        \A r \in leg_rows : r.delta # NULL /\ r.entry_last # NULL

\* =================================================================
\* Properties of the noise floor and the per-entry ratios
\* =================================================================
\* the (entry_date, expiry) groups of the legs that have an expiry-day quote
QuotedEntries == {r \in entries : r.entry_last # NULL /\ ExpiryQuote(r) \in xtable}

KeyOf(r) == [entry_date |-> r.entry_date, expiry |-> r.expiry]
AllKeys == {KeyOf(r) : r \in QuotedEntries}
LegsAt(k) == {r \in QuotedEntries : KeyOf(r) = k}

\* premium paid on bought legs less premium received on sold legs
KeyPremium(k) ==
    SumOver(LegsAt(k), [r \in LegsAt(k) |->
        IF r.leg_direction = "BUY" THEN r.entry_last * 100 * r.leg_quantity
        ELSE 0 - r.entry_last * 100 * r.leg_quantity])

\* P&L at expiry of the legs of the group
KeyPnl(k) ==
    SumOver(LegsAt(k), [r \in LegsAt(k) |->
        IF r.leg_direction = "BUY"
        THEN (ExpiryLast(r.cp, r.strike, r.expiry) - r.entry_last) * 100 * r.leg_quantity
        ELSE (r.entry_last - ExpiryLast(r.cp, r.strike, r.expiry)) * 100 * r.leg_quantity])

DroppedKeys == {k \in AllKeys : KeyPremium(k) = 0}
KeptKeys == AllKeys \ DroppedKeys

\* C13: a group whose net entry premium is within the noise floor is in no
\* per-entry outcome, and the entry count, the win rate and the pooled
\* totals are taken over the other groups only.
Thm_C13_NoiseFloorDrops ==
    vphase = "done" =>
        /\ {KeyOf(o) : o \in Outcomes} = KeptKeys
        /\ \A o \in Outcomes : o.net_entry_premium # 0 /\ o.portfolio_pnl = KeyPnl(KeyOf(o))
        /\ result.n_entries = Cardinality(KeptKeys)
        /\ KeptKeys # {} =>
             /\ result.win_rate =
                  Ratio(Cardinality({k \in KeptKeys : KeyPnl(k) > 0}), Cardinality(KeptKeys))
             /\ result.roc.num \in {0, SumOver(KeptKeys, [k \in KeptKeys |-> KeyPnl(k)])}
             /\ result.roc.den \in
                  {1, SumOver(Outcomes, [o \in Outcomes |->
                                            IF o.capital = NaN THEN 0 ELSE o.capital])}

Wit_C13_DroppedBesideKept ==
    /\ vphase = "done"
    /\ KeptKeys # {}
    /\ \E k \in DroppedKeys : KeyPnl(k) > 0

\* C14: the per-entry return on credit is P&L / (-net premium) for a net
\* credit and undefined for a net premium of zero or a net debit.
Cex_C14_ReturnOnCreditOnlyForCredit ==
    vphase = "done" =>
        \A o \in Outcomes :
            o.roc_like_metric =
                IF o.net_entry_premium < 0
                THEN Ratio(o.portfolio_pnl, 0 - o.net_entry_premium)
                ELSE NA

\* C16: the value returned is a pair (summary, per-entry outcomes) for every
\* input.
Cex_C16_AlwaysAPair ==
    vphase = "done" => result.kind = "tuple"

\* =================================================================
\* Properties of the put-spread summary
\* =================================================================
\* C15: a ratio with a zero divisor is the undefined marker: each per-entry
\* ROC and return on credit is the quotient by a non-zero capital or credit
\* or else undefined, and so is each pooled aggregate; none is the result of
\* a division by zero.
Cex_C15_ZeroDivisorIsUndefined ==
    tphase = "done" =>
        /\ \A d \in tsum.detail :
             /\ d.roc = IF d.capital = 0 THEN NA ELSE Ratio(d.portfolio_pnl, d.capital)
             /\ d.return_on_credit =
                  IF d.net_entry_premium = 0 THEN NA
                  ELSE Ratio(d.portfolio_pnl, 0 - d.net_entry_premium)
        /\ \A x \in tsum.summaries :
             /\ x.roc.den # 0 \/ x.roc = NA
             /\ x.return_on_credit.den # 0 \/ x.return_on_credit = NA

\* =================================================================
\* Properties of the implied-volatility solver
\* =================================================================
\* C17: implied_vol raises no exception, whatever the input, and returns
\* None whenever the price is not bracketed on [sigma_lo, sigma_hi].
Cex_C17_NoneNeverRaises ==
    ipc = "done" =>
        /\ iv_out.kind # "raise"
        /\ ~Bracketed(iv_in) => iv_out.kind = "none"

NewtonFailed == newton_exit \in {"value_error", "flat_vega", "left_range", "exhausted"}
IterationBounds ==
    /\ n_newton <= max_iter /\ n_bisect <= max_iter
    /\ (ipc = "newton" /\ n_newton = 0) => sigma = Known(sigma_init)
    /\ (ipc = "newton" /\ n_newton > 0) =>
          /\ n_newton < max_iter
          /\ ~obs.raises /\ ~obs.small /\ ~obs.flat /\ obs.next = "in"
    /\ (ipc \in {"bracket", "bisect"} \/ n_bisect > 0) => NewtonFailed
    /\ newton_exit = "exhausted" => n_newton = max_iter
    /\ (ipc = "bisect" /\ n_bisect > 0) => n_bisect < max_iter /\ ~obs.small

Cex_C19_RoundTrip ==
    (ipc = "done" /\ iv_in.src = "roundtrip" /\ iv_in.T > 0) =>
        /\ iv_out.kind = "value"
        /\ iv_out.sigma.known => iv_out.sigma.v = iv_in.sigma_true

\* =================================================================
\* Properties of the query sites
\* =================================================================
\* C20: no query site selects a row that the batch rewrite removes: every
\* row a site numbers 1 is a row the CTAS of dedup_month may keep for its key.
Cex_C20_SitesAgreeWithBatch ==
    qphase = "done" => site_rows \cap BatchRemoves(site_tbl) = {}

\* =================================================================
\* Idempotence of the deduplication
\* =================================================================
\* C21: the dedup selection applied to its own result returns that result,
\* and a month that dedup_month has just rewritten (no other writer in
\* between) holds the deduplicated rows of what it held before, has no
\* duplicate key, and makes a second dedup_month return before the CTAS.
Thm_C21_DedupIdempotent ==
    /\ tmp # <<>> => DedupSelect(tmp[1]) = tmp[1]
    /\ \A x \in reported :
          ext = 0 =>
             /\ live[x] = DedupSelect(orig[x])
             /\ DedupSelect(live[x]) = live[x]
             /\ CountDupKeys(live[x]) = 0
             /\ SkipsRewrite(CountDupKeys(live[x]), FALSE)
Wit_C21_RewrittenMonth ==
    /\ pc = "done" /\ ext = 0
    /\ \E x \in reported : CountDupKeys(orig[x]) > 0 /\ live[x] # orig[x]

\* =================================================================
\* Properties of Leg objects
\* =================================================================
\* C22: every Leg that exists, copies made by with_resolution included, has
\* quantity > 0, 0 < strike_delta <= 100 and dte >= 1; a constructor call
\* raises exactly when its arguments break one of these, and when it does
\* not raise the object holds the arguments unchanged.
Thm_C22_LegValidated ==
    /\ \A o \in objs :
          /\ o.quantity > 0
          /\ o.strike_delta # NaN /\ 0 < o.strike_delta /\ o.strike_delta <= 100
          /\ o.dte >= 1
    /\ leg_args # <<>> =>
          (leg_exc = "ValueError") =
             (\/ leg_args.quantity <= 0
              \/ leg_args.strike_delta = NaN
              \/ leg_args.strike_delta <= 0 \/ leg_args.strike_delta > 100
              \/ leg_args.dte < 1)
Wit_C22_RejectedBesideResolved ==
    /\ leg_exc = "ValueError" /\ leg_args.dte < 1 /\ leg_args.quantity > 0
    /\ \E o \in objs : o.resolved_strike = 100

\* =================================================================
\* Properties of the two pricing regimes
\* =================================================================
EntryKeys(detail) == {<<d.ticker, d.entry_date, d.expiry>> : d \in detail}

\* C23: the mid and the worst aggregates of a study cover the same
\* (ticker, entry_date, expiry) entries and report, for every ticker, the
\* same entry count.
Cex_C23_SameEntriesBothRegimes ==
    (tphase = "done" /\ pricing = "mid+worst") =>
        /\ EntryKeys(tsum.detail) = EntryKeys(tsum.detail_worst)
        /\ {<<s.ticker, s.n_entries>> : s \in tsum.summaries}
              = {<<s.ticker, s.n_entries>> : s \in tsum.summaries_worst}

\* =================================================================
\* Properties of the aggregator
\* =================================================================
SumPnl     == SumOver(Outcomes, [o \in Outcomes |-> o.portfolio_pnl])
SumCapital ==
    SumOver({o \in Outcomes : o.capital # NaN},
            [o \in {x \in Outcomes : x.capital # NaN} |-> o.capital])
SumCredit  == SumOver(Outcomes, [o \in Outcomes |-> 0 - o.net_entry_premium])
Wins       == {o \in Outcomes : o.portfolio_pnl > 0}

\* C24: for the outcomes it returns, the aggregator reports their number,
\* pooled ROC = sum of P&L / sum of capital, pooled return on credit =
\* sum of P&L / sum of credit, and win rate = outcomes with P&L > 0 / number.
Cex_C24_PooledAggregates ==
    (vphase = "done" /\ result.kind = "tuple") =>
        /\ result.n_entries = Cardinality(Outcomes)
        /\ result.roc = Ratio(SumPnl, SumCapital)
        /\ result.return_on_credit = Ratio(SumPnl, SumCredit)
        /\ result.win_rate = Ratio(Cardinality(Wins), Cardinality(Outcomes))

GivenFilter == NormalizeWeekdays(sargs.entry_weekdays)
IntTueWed == <<{IntSpec(8), IntSpec(2)}>>
StrTueWed == <<{StrSpec(" Tue "), StrSpec("wed")}>>

Cex_C27_MonthNeverLost ==
    (pc \notin {"idle", "load"} /\ ext = 0 /\ tmp = <<>>) =>
        \A x \in Months : live[x] = orig[x] \/ live[x] = DedupSelect(orig[x])

\* =================================================================
\* query_ticker: two calls that share the table silver.temp2
\* (src/lib/athena_lib.py, step1Sql / step2Sql / query_ticker)
\* =================================================================
NumTickerDays == 3     \* trading days of the query_ticker model
TickerDays == 1 .. NumTickerDays
Tickers == {"A", "B"}
Callers == {1, 2}

\* options_daily_v2: for each ticker one strike with an expiry on every day
\* from day 2 on, quoted on every day up to its expiry.
DailyQuotes ==
    { [ticker |-> t, trade_date |-> d, expiry |-> x] :
        t \in Tickers, d \in TickerDays, x \in 2 .. NumTickerDays } \ 
    { q \in [ticker : Tickers, trade_date : TickerDays, expiry : TickerDays] :
        q.trade_date > q.expiry }

InRange(d, a) == a.ts_start <= d /\ d <= a.ts_end

\* expiry_diff of step1Sql: ABS(date_diff('day', expiry, trade_date + dte))
Step1ExpiryDiff(q, a) == Abs((q.trade_date + a.dte) - q.expiry)

\* step1Sql: the candidates of the ticker in the range, and per entry date
\* (cp and strike are single here) the one first by (expiry_diff, expiry).
Step1Cand(a) ==
    { q \in DailyQuotes : q.ticker = a.ticker /\ InRange(q.trade_date, a) }

Step1Rows(a) ==
    { [ticker |-> q.ticker, entry_date |-> q.trade_date, expiry |-> q.expiry] :
        q \in { c \in Step1Cand(a) :
                  \A o \in Step1Cand(a) :
                      o.trade_date = c.trade_date =>
                          \/ Step1ExpiryDiff(c, a) < Step1ExpiryDiff(o, a)
                          \/ /\ Step1ExpiryDiff(c, a) = Step1ExpiryDiff(o, a)
                             /\ c.expiry <= o.expiry } }

\* step2Sql: temp2 joined to the ticker's expiry-day quotes in the range.
Step2Rows(rows, a) ==
    { x \in rows :
        \E y \in DailyQuotes :
            /\ y.ticker = a.ticker /\ InRange(y.trade_date, a)
            /\ y.trade_date = y.expiry
            /\ x.ticker = y.ticker /\ x.expiry = y.expiry }

\* What one call returns when nothing else touches temp2.
QueryTickerAlone(a) == Step2Rows(Step1Rows(a), a)

TickerCalls ==
    { a \in [ticker : Tickers, ts_start : TickerDays, ts_end : TickerDays,
             dte : {0, 1}] : a.ts_start <= a.ts_end }

InitTicker ==
    /\ DedupIdle /\ RunIdle /\ LegIdle /\ StratIdle /\ CapIdle /\ ValIdle
    /\ SpreadIdle /\ IVIdle /\ SiteIdle /\ LegObjIdle /\ BisIdle
    /\ TickerIdle

TickerOthers ==
    <<dedupVars, runVars, legVars, stratVars, capVars, valVars, spreadVars,
      ivVars, siteVars, legObjVars, bisVars>>

\* query_ticker is entered by caller c.
CallQueryTicker(c, a) ==
    /\ qt_pc[c] = "idle"
    /\ qt_args' = [qt_args EXCEPT ![c] = a]
    /\ qt_pc' = [qt_pc EXCEPT ![c] = "drop"]
    /\ UNCHANGED <<temp2, qt_df, TickerOthers>>

\* athena("DROP TABLE IF EXISTS temp2"), line 221
DropBefore(c) ==
    /\ qt_pc[c] = "drop"
    /\ temp2' = NoTable
    /\ qt_pc' = [qt_pc EXCEPT ![c] = "create"]
    /\ UNCHANGED <<qt_args, qt_df, TickerOthers>>

\* athena(step1Sql(...)), line 224: CREATE TABLE fails when the table exists,
\* and the exception leaves query_ticker (there is no try around it).
CreateTemp2(c) ==
    /\ qt_pc[c] = "create"
    /\ IF temp2.exists
       THEN /\ qt_pc' = [qt_pc EXCEPT ![c] = "raised"]
            /\ qt_df' = [qt_df EXCEPT ![c].status = "raised"]
            /\ UNCHANGED temp2
       ELSE /\ temp2' = [exists |-> TRUE, rows |-> Step1Rows(qt_args[c])]
            /\ qt_pc' = [qt_pc EXCEPT ![c] = "read"]
            /\ UNCHANGED qt_df
    /\ UNCHANGED <<qt_args, TickerOthers>>

\* df = athena(step2Sql(...)), line 225: fails when temp2 does not exist.
ReadTemp2(c) ==
    /\ qt_pc[c] = "read"
    /\ IF temp2.exists
       THEN /\ qt_df' = [qt_df EXCEPT ![c] =
                            [status |-> "ok",
                             rows |-> Step2Rows(temp2.rows, qt_args[c]),
                             scanned |-> temp2.rows]]
            /\ qt_pc' = [qt_pc EXCEPT ![c] = "dropend"]
       ELSE /\ qt_pc' = [qt_pc EXCEPT ![c] = "raised"]
            /\ qt_df' = [qt_df EXCEPT ![c].status = "raised"]
    /\ UNCHANGED <<temp2, qt_args, TickerOthers>>

\* athena("DROP TABLE IF EXISTS temp2"); return df, lines 226-227
DropAfter(c) ==
    /\ qt_pc[c] = "dropend"
    /\ temp2' = NoTable
    /\ qt_pc' = [qt_pc EXCEPT ![c] = "done"]
    /\ UNCHANGED <<qt_args, qt_df, TickerOthers>>

NextTicker ==
    \/ \E c \in Callers, a \in TickerCalls : CallQueryTicker(c, a)
    \/ \E c \in Callers : DropBefore(c)
    \/ \E c \in Callers : CreateTemp2(c)
    \/ \E c \in Callers : ReadTemp2(c)
    \/ \E c \in Callers : DropAfter(c)

SpecTicker == InitTicker /\ [][NextTicker]_vars

DifferentTickers ==
    /\ \A c \in Callers : qt_pc[c] # "idle"
    /\ qt_args[1].ticker # qt_args[2].ticker

\* C28: two concurrent query_ticker calls for different tickers do not
\* interfere: neither fails, neither reads a temp2 that holds the other
\* ticker's rows, and each returns the rows of its own ticker and range.
Cex_C28_CallsDoNotInterfere ==
    DifferentTickers =>
        \A c \in Callers :
            /\ qt_pc[c] # "raised"
            /\ qt_pc[c] \in {"dropend", "done"} =>
                /\ \A x \in qt_df[c].scanned : x.ticker = qt_args[c].ticker
                /\ qt_df[c].rows = QueryTickerAlone(qt_args[c])

\* =================================================================
\* summarize_strangle_trades: capital of one trade row
\* (src/lib/option_strat.py lines 477-493; d is the row, amounts as in the
\* short-only branch above, with twice underlying_est kept as an integer)
\* =================================================================
StrangleCallMargin(d) ==
    LET u2          == d.call_strike + d.put_strike
        call_credit == d.call_entry_last * CONTRACT_MULTIPLIER
        call_otm    == 50 * Max(0, 2 * d.call_strike - u2)
        call_m1     == 10 * u2 - call_otm + call_credit
        call_m2     == 5 * u2 + call_credit
    IN Max(call_m1, call_m2)

StranglePutMarginOnUnderlying(d) ==
    LET u2         == d.call_strike + d.put_strike
        put_credit == d.put_entry_last * CONTRACT_MULTIPLIER
        put_otm    == 50 * Max(0, u2 - 2 * d.put_strike)
        put_m1     == 10 * u2 - put_otm + put_credit
        put_m2     == 5 * u2 + put_credit
    IN Max(put_m1, put_m2)

StranglePutMargin(d) ==
    LET u2         == d.call_strike + d.put_strike
        put_credit == d.put_entry_last * CONTRACT_MULTIPLIER
        put_otm    == 50 * Max(0, u2 - 2 * d.put_strike)
        put_m1     == 10 * u2 - put_otm + put_credit
        put_m2     == 10 * d.put_strike + put_credit
    IN Max(put_m1, put_m2)

\* d["capital"] before .round(2)
StrangleCapital(d) == Max(StrangleCallMargin(d), StranglePutMargin(d))

\* the group is a short call and a short put of one lot each, nothing else
OneLotStrangle ==
    /\ HasLeg("CALL", "SELL") /\ HasLeg("PUT", "SELL")
    /\ \A r \in group : r.leg_direction = "SELL" /\ r.leg_quantity = 1

\* the trade row that fetch_strangle_trades would hold for the same two legs
StrangleRowOfGroup ==
    [call_strike     |-> LegAt("CALL", "SELL").strike,
     put_strike      |-> LegAt("PUT", "SELL").strike,
     call_entry_last |-> LegAt("CALL", "SELL").entry_last,
     put_entry_last  |-> LegAt("PUT", "SELL").entry_last]

\* C29: for a one-lot short call plus short put the short-only branch of
\* _compute_condor_capital_for_group gives the capital that
\* summarize_strangle_trades computes, before rounding, from the same two
\* strikes and entry prices.
Thm_C29_StrangleCapitalsAgree ==
    (cphase = "done" /\ OneLotStrangle) =>
        capital = StrangleCapital(StrangleRowOfGroup)

\* a strangle whose put side governs through its 10%-of-strike method
Wit_C29_PutSideGoverns ==
    /\ cphase = "done" /\ OneLotStrangle
    /\ LegAt("CALL", "SELL").strike > LegAt("PUT", "SELL").strike
    /\ capital = StranglePutMargin(StrangleRowOfGroup)
    /\ capital > StrangleCallMargin(StrangleRowOfGroup)
    /\ capital = 10 * LegAt("PUT", "SELL").strike
                     + 100 * LegAt("PUT", "SELL").entry_last

\* =================================================================
\* implied_vol on a grid of representable sigmas (commons/bs.py 34-83)
\* A sigma is a whole number of grid steps: the doubles between sigma_lo and
\* sigma_hi are finitely many, and so are the grid points. The price is given
\* by the sigma whose model price it is (bs_price rises with sigma), or is NaN.
\* T > 0 throughout; T <= 0 is the subject of the model above.
\* =================================================================
GridBits     == 6     \* sigma_hi - sigma_lo is 2^GridBits grid steps
StepsBelowLo == 1     \* grid points strictly between 0 and sigma_lo

sigma_lo == StepsBelowLo + 1
sigma_hi == sigma_lo + 2 ^ GridBits
SigmaStart == sigma_lo + 2 ^ (GridBits - 4)      \* sigma_init

GridSigmas == 0 .. sigma_hi + 1
PriceInputs == GridSigmas \cup {NaN}

\* sign of bs_price(..., s, ...) - price; NaN when either side is NaN
DiffAt(s) ==
    IF s = NaN \/ b_price = NaN THEN NaN
    ELSE IF s < b_price THEN 0 - 1
    ELSE IF s = b_price THEN 0
    ELSE 1

\* abs(diff) < tol; a comparison with NaN is false
SmallDiff(f) == f # NaN /\ f = 0
\* a * b > 0 and a * b <= 0 on signs; both are false when the product is NaN
ProdPositive(a, b) == a # NaN /\ b # NaN /\ a * b > 0
ProdNotPositive(a, b) == a # NaN /\ b # NaN /\ a * b <= 0

\* sigma <= 0 or sigma > sigma_hi
LeavesRange(s) == s # NaN /\ (s <= 0 \/ s > sigma_hi)

\* 0.5 * (lo + hi): exact when representable, else rounded to the even
\* neighbour
Midpoint(a, b) ==
    IF (a + b) % 2 = 0 THEN (a + b) \div 2
    ELSE IF ((a + b - 1) \div 2) % 2 = 0 THEN (a + b - 1) \div 2
    ELSE (a + b + 1) \div 2

\* the values sigma - diff / v is taken to have: with a NaN diff it is NaN;
\* else it lies on the side of the root the Newton step points to, zero and a
\* value beyond sigma_hi included
NewtonNext(s) ==
    IF DiffAt(s) = NaN THEN {NaN}
    ELSE IF DiffAt(s) > 0
    THEN {x \in {0, StepsBelowLo, sigma_lo, b_price} : x < s}
    ELSE {x \in {b_price, sigma_hi, sigma_hi + 1} : x > s}

InitBisect ==
    /\ DedupIdle /\ RunIdle /\ LegIdle /\ StratIdle /\ CapIdle /\ ValIdle
    /\ SpreadIdle /\ IVIdle /\ SiteIdle /\ LegObjIdle /\ TickerIdle
    /\ b_price \in PriceInputs
    /\ bpc = "newton" /\ b_iter = 0 /\ b_sigma = SigmaStart
    /\ lo = 0 /\ hi = 0 /\ f_lo = 0 /\ f_hi = 0 /\ b_ret = 0

BisectOthers ==
    <<dedupVars, runVars, legVars, stratVars, capVars, valVars, spreadVars,
      ivVars, siteVars, legObjVars, tickerVars>>

\* one pass of the Newton loop, lines 50-63; flat is v < 1e-12
NewtonIter(flat, s) ==
    /\ bpc = "newton" /\ b_iter < max_iter
    /\ s \in NewtonNext(b_sigma)
    /\ flat => b_sigma # NaN          \* a NaN vega is not below 1e-12
    /\ IF SmallDiff(DiffAt(b_sigma))
       THEN /\ bpc' = "returned_newton" /\ b_ret' = b_sigma
            /\ UNCHANGED <<b_iter, b_sigma>>
       ELSE IF flat
       THEN /\ bpc' = "bracket" /\ b_iter' = 0
            /\ UNCHANGED <<b_sigma, b_ret>>
       ELSE /\ b_sigma' = s
            /\ IF LeavesRange(s) \/ b_iter + 1 = max_iter
               THEN bpc' = "bracket" /\ b_iter' = 0
               ELSE bpc' = "newton" /\ b_iter' = b_iter + 1
            /\ UNCHANGED b_ret
    /\ UNCHANGED <<b_price, lo, hi, f_lo, f_hi, BisectOthers>>

\* lines 66-71
BisectBracket ==
    /\ bpc = "bracket"
    /\ lo' = sigma_lo /\ hi' = sigma_hi
    /\ f_lo' = DiffAt(sigma_lo) /\ f_hi' = DiffAt(sigma_hi)
    /\ IF ProdPositive(DiffAt(sigma_lo), DiffAt(sigma_hi))
       THEN bpc' = "returned_none"
       ELSE bpc' = "bisect"
    /\ UNCHANGED <<b_price, b_iter, b_sigma, b_ret, BisectOthers>>

\* one pass of the bisection loop, lines 73-82
BisectIter ==
    /\ bpc = "bisect" /\ b_iter < max_iter
    /\ LET mid   == Midpoint(lo, hi)
           f_mid == DiffAt(mid)
       IN IF SmallDiff(f_mid)
          THEN /\ bpc' = "returned_bisect" /\ b_ret' = mid
               /\ UNCHANGED <<b_iter, lo, hi, f_lo, f_hi>>
          ELSE /\ IF ProdNotPositive(f_lo, f_mid)
                  THEN hi' = mid /\ f_hi' = f_mid /\ UNCHANGED <<lo, f_lo>>
                  ELSE lo' = mid /\ f_lo' = f_mid /\ UNCHANGED <<hi, f_hi>>
               /\ b_iter' = b_iter + 1
               /\ UNCHANGED <<bpc, b_ret>>
    /\ UNCHANGED <<b_price, b_sigma, BisectOthers>>

\* line 83: return 0.5 * (lo + hi)
BisectReturn ==
    /\ bpc = "bisect" /\ b_iter = max_iter
    /\ bpc' = "returned_bisect" /\ b_ret' = Midpoint(lo, hi)
    /\ UNCHANGED <<b_price, b_iter, b_sigma, lo, hi, f_lo, f_hi, BisectOthers>>

NextBisect ==
    \/ \E flat \in BOOLEAN, s \in PriceInputs : NewtonIter(flat, s)
    \/ BisectBracket
    \/ BisectIter
    \/ BisectReturn

SpecBisect == InitBisect /\ [][NextBisect]_vars


\* =================================================================
\* Properties of the bisection interval
\* =================================================================
\* during bisection: sigma_lo <= lo < hi <= sigma_hi, with the sign change
\* of model price - price between the two ends
IntervalBracketsRoot ==
    bpc = "bisect" =>
        /\ sigma_lo <= lo /\ lo < hi /\ hi <= sigma_hi
        /\ ProdNotPositive(f_lo, f_hi)

\* a value that is returned lies in (0, sigma_hi]
ReturnInRange ==
    bpc \in {"returned_newton", "returned_bisect"} =>
        b_ret # NaN /\ 0 < b_ret /\ b_ret <= sigma_hi

\* a value the bisection returns lies inside its last interval
ReturnInsideInterval ==
    bpc = "returned_bisect" => lo <= b_ret /\ b_ret <= hi

\* an iteration that does not return halves the interval
IntervalHalves ==
    (bpc = "bisect" /\ bpc' = "bisect") => 2 * (hi' - lo') = hi - lo

\* C30: every value implied_vol returns lies in (0, sigma_hi]; during
\* bisection sigma_lo <= lo < hi <= sigma_hi, the interval halves at each
\* iteration and keeps the sign change of model price - price between lo
\* and hi, and the value returned lies inside the final interval.
Cex_C30_BisectionInterval ==
    /\ [](IntervalBracketsRoot /\ ReturnInRange /\ ReturnInsideInterval)
    /\ [][IntervalHalves]_vars

====
